---- MODULE Spec2Model ----
(***************************************************************************)
(* Frame-transport pipeline of the LED matrix driver: the DDP packet       *)
(* encoders (leddisplay/ddp.py) and the dirty-tracking framebuffer         *)
(* (leddisplay/framebuffer.py).                                            *)
(*                                                                         *)
(* Bytes are integers 0..255, byte strings are sequences of bytes, a       *)
(* packet is the byte string struct.pack builds (10 header bytes followed  *)
(* by the payload).  Python lists indexed from 0 are sequences indexed     *)
(* from 1; offsets and pixel indices keep their 0-based values.            *)
(***************************************************************************)
EXTENDS Integers, Sequences, FiniteSets, TLC

VARIABLES
    enc_call,      \* the encoder call made last: its name and its arguments
    enc_result,    \* what that call produced: a packet list, or how it failed
    width,         \* MatrixFramebuffer.width
    height,        \* MatrixFramebuffer.height
    fb_pixels,     \* MatrixFramebuffer._pixels, logical index -> color
    fb_dirty,      \* MatrixFramebuffer._dirty, a set of logical indices
    fb_baseline,   \* history: _pixels as it was at the last clear_dirty()
    fb_cleared,    \* history: clear()/fill() was called since the last clear_dirty()
    fb_call,       \* the framebuffer call made last, and how it ended
    display,       \* the MatrixDisplay: its fields and _logical_to_physical
    post_init_next,\* MatrixDisplay.__post_init__: the logical index its loops assign next
    ctl_ddp,       \* WLEDController._ddp: the cached DDPClient, or none
    show_call,     \* the show() made by the last step: what it built, sent and how it ended
    ddp_client,    \* a DDPClient its owner sends on directly: its fields and _sequence
    send_call,     \* the send made last on ddp_client: what it built, sent and how it ended
    map_call,      \* the xy_to_index call made last: its arguments and what it returned
    fb_args,       \* the coordinates the last framebuffer call was made with, if it took any
    game,          \* the SnakeGame: its fields
    game_call,     \* the SnakeGame call made last, and the last move of the head before it
    receiver       \* the buffer of the device the display's packets reach, byte by byte

vars == <<enc_call, enc_result, width, height, fb_pixels, fb_dirty,
          fb_baseline, fb_cleared, fb_call, display, post_init_next, ctl_ddp, show_call,
          ddp_client, send_call, map_call, fb_args, game, game_call, receiver>>

enc_vars == <<enc_call, enc_result>>

fb_vars == <<width, height, fb_pixels, fb_dirty, fb_baseline, fb_cleared, fb_call>>

disp_vars == <<display, post_init_next, ctl_ddp, show_call>>

snd_vars == <<ddp_client, send_call>>

game_vars == <<game, game_call>>

\* the sender used directly, the calls made with coordinates, the game and the device
aux_vars == <<snd_vars, map_call, fb_args, game_vars, receiver>>

----------------------------------------------------------------------------
(* Bounds of the model and the argument values the calls are drawn from.   *)

\* longest byte string handed to build_ddp_packets
MaxBytes == 7

\* most entries in the update collection handed to build_ddp_sparse_packets
MaxUpdates == 3

\* largest pixel index in an update
MaxIndex == 2

\* largest max_pixels_per_packet
MaxPixelsPerPacket == 3

\* most pixels (width * height) of a framebuffer
MaxPixels == 4

\* longest side of a display whose mapping table is constructed
MaxSide == 4

\* most frames a display's client sends before the model stops showing
MaxFrames == 2

\* the largest framebuffer and display paired with one of another size, in pixels
MaxPairedPixels == 2

\* the largest game grid, in cells
MaxCells == 4

\* seconds_per_tick, in the time unit every dt is a multiple of
TickUnits == 2

\* the longest dt of an update, in the same unit
MaxDt == 3

\* the largest grid step() is applied on with a snake given to the constructor, in cells
MaxStepCells == 6

\* the longest snake given to the constructor
MaxSnakeLen == 4

\* how far past the largest H field the long byte strings and packet sizes go
MaxOver == 3

ByteValues == {7, 255}

ByteStrings == UNION {[1..n -> ByteValues] : n \in 0..MaxBytes}

\* colors as callers pass them: channels need not be in 0..255
Colors == {<<255, 0, 128>>, <<-5, 300, 7>>}

Updates == (0..MaxIndex) \X Colors

UpdateLists == UNION {[1..n -> Updates] : n \in 0..MaxUpdates}

\* <<sequence, destination_id>>
HeaderArgs == {<<1, 1>>, <<15, 255>>, <<255, 0>>, <<7, 256>>, <<3, -1>>}

MaxPixelsArgs == (-1)..MaxPixelsPerPacket

----------------------------------------------------------------------------
(* leddisplay/ddp.py                                                       *)

DDP_HEADER_LEN == 10

DDP_VER1 == 64

DDP_PUSH == 1

DDP_DATATYPE_RGB_8 == 11

Min(a, b) == IF a <= b THEN a ELSE b

Max(a, b) == IF a >= b THEN a ELSE b

\* Python's s[start:stop] for 0 <= start; a negative stop counts from the end
PySlice(s, start, stop) ==
    LET n == Len(s)
        e == IF stop < 0 THEN Max(0, n + stop) ELSE Min(stop, n)
        b == Min(start, n)
    IN  IF e <= b THEN <<>> ELSE SubSeq(s, b + 1, e)

\* v & 0xFF
And0xFF(v) == v % 256

\* a | b on non-negative integers
RECURSIVE BitOr(_, _)
BitOr(a, b) ==
    IF a = 0 THEN b
    ELSE IF b = 0 THEN a
    ELSE (IF a % 2 = 1 \/ b % 2 = 1 THEN 1 ELSE 0) + 2 * BitOr(a \div 2, b \div 2)

\* mutation of _clamp_u8: the channel wraps modulo 256 instead of saturating
_clamp_u8_wraps(value) == value % 256

_clamp_u8(value) == IF value < 0 THEN 0 ELSE IF value > 255 THEN 255 ELSE value

\* the largest value of an H field of struct.pack
USHRT_MAX == 65535

\* struct.pack("!BBBBLH", ...) accepts the L field in 0..2^32-1 and the H field
\* in 0..65535 (the B fields are masked by the callers); every offset of this
\* model is below 2^31
StructPackFits(offset, length) == offset >= 0 /\ length >= 0 /\ length <= 65535

\* mutation of StructPack: the offset and length fields in little-endian order
StructPack_littleEndian(flags, sequence, datatype, destination_id, offset, length) ==
    << flags, sequence, datatype, destination_id,
       offset % 256, (offset \div 256) % 256,
       (offset \div 65536) % 256, (offset \div 16777216) % 256,
       length % 256, (length \div 256) % 256 >>

\* struct.pack("!BBBBLH", flags, sequence, datatype, destination_id, offset, length)
StructPack(flags, sequence, datatype, destination_id, offset, length) ==
    << flags, sequence, datatype, destination_id,
       (offset \div 16777216) % 256, (offset \div 65536) % 256,
       (offset \div 256) % 256, offset % 256,
       (length \div 256) % 256, length % 256 >>

Header(flags, sequence, datatype, destination_id, offset, length) ==
    StructPack(And0xFF(flags), And0xFF(sequence), And0xFF(datatype),
               And0xFF(destination_id), offset, length)

Returned(packets) == [status |-> "ok", packets |-> packets]

Raised(error) == [status |-> error, packets |-> <<>>]

\* a loop that never ends: the call does not return
Diverged == [status |-> "diverges", packets |-> <<>>]

\* the bytes of a list of colors, clamped channel by channel
RECURSIVE rgb_bytes_from_colors(_)
rgb_bytes_from_colors(colors) ==
    IF colors = <<>> THEN <<>>
    ELSE << _clamp_u8(colors[1][1]), _clamp_u8(colors[1][2]), _clamp_u8(colors[1][3]) >>
         \o rgb_bytes_from_colors(Tail(colors))

\* the while loop of build_ddp_packets
RECURSIVE FullFrameLoop(_, _, _, _, _, _, _)
FullFrameLoop(rgb_bytes, offset, max_data_len, sequence, datatype, destination_id, packets) ==
    IF ~(offset < Len(rgb_bytes)) THEN Returned(packets)
    ELSE LET chunk == PySlice(rgb_bytes, offset, offset + max_data_len)
             last  == (offset + Len(chunk)) >= Len(rgb_bytes)
             flags == BitOr(DDP_VER1, IF last THEN DDP_PUSH ELSE 0)
         IN  IF ~StructPackFits(offset, Len(chunk)) THEN Raised("struct.error")
             ELSE FullFrameLoop(rgb_bytes, offset + Len(chunk), max_data_len,
                      sequence, datatype, destination_id,
                      Append(packets,
                          Header(flags, sequence, datatype, destination_id,
                                 offset, Len(chunk)) \o chunk))

\* mutation of build_ddp_packets: the loop stops one byte before the end of the stream
build_ddp_packets_stopsEarly(rgb_bytes, sequence, destination_id, max_pixels_per_packet, datatype) ==
    IF max_pixels_per_packet <= 0 THEN Raised("ValueError")
    ELSE IF ~(0 <= destination_id /\ destination_id <= 255) THEN Raised("ValueError")
    ELSE IF Len(rgb_bytes) = 0
         THEN Returned(<< Header(BitOr(DDP_VER1, DDP_PUSH), sequence, datatype,
                                 destination_id, 0, 0) >>)
    ELSE FullFrameLoop(SubSeq(rgb_bytes, 1, Len(rgb_bytes) - 1), 0,
                       max_pixels_per_packet * 3, sequence, datatype, destination_id, <<>>)

\* mutation of build_ddp_packets: the ceiling counted in pixels, not in bytes
build_ddp_packets_pixelCeiling(rgb_bytes, sequence, destination_id, max_pixels_per_packet, datatype) ==
    IF max_pixels_per_packet <= 0 THEN Raised("ValueError")
    ELSE IF ~(0 <= destination_id /\ destination_id <= 255) THEN Raised("ValueError")
    ELSE IF Len(rgb_bytes) = 0
         THEN Returned(<< Header(BitOr(DDP_VER1, DDP_PUSH), sequence, datatype,
                                 destination_id, 0, 0) >>)
    ELSE FullFrameLoop(rgb_bytes, 0, max_pixels_per_packet,
                       sequence, datatype, destination_id, <<>>)

\* mutation of build_ddp_packets: no PUSH-only packet for the empty stream
build_ddp_packets_noEmptyCase(rgb_bytes, sequence, destination_id, max_pixels_per_packet, datatype) ==
    IF max_pixels_per_packet <= 0 THEN Raised("ValueError")
    ELSE IF ~(0 <= destination_id /\ destination_id <= 255) THEN Raised("ValueError")
    ELSE FullFrameLoop(rgb_bytes, 0, max_pixels_per_packet * 3,
                       sequence, datatype, destination_id, <<>>)

\* mutation of build_ddp_packets: the empty stream answered before the arguments are validated
build_ddp_packets_emptyFirst(rgb_bytes, sequence, destination_id, max_pixels_per_packet, datatype) ==
    IF Len(rgb_bytes) = 0
    THEN Returned(<< Header(BitOr(DDP_VER1, DDP_PUSH), sequence, datatype,
                            destination_id, 0, 0) >>)
    ELSE IF max_pixels_per_packet <= 0 THEN Raised("ValueError")
    ELSE IF ~(0 <= destination_id /\ destination_id <= 255) THEN Raised("ValueError")
    ELSE FullFrameLoop(rgb_bytes, 0, max_pixels_per_packet * 3,
                       sequence, datatype, destination_id, <<>>)

build_ddp_packets(rgb_bytes, sequence, destination_id, max_pixels_per_packet, datatype) ==
    IF max_pixels_per_packet <= 0 THEN Raised("ValueError")
    ELSE IF max_pixels_per_packet * 3 <= 0 THEN Raised("ValueError")
    ELSE IF ~(0 <= destination_id /\ destination_id <= 255) THEN Raised("ValueError")
    ELSE IF Len(rgb_bytes) = 0
         THEN Returned(<< Header(BitOr(DDP_VER1, DDP_PUSH), sequence, datatype,
                                 destination_id, 0, 0) >>)
    ELSE FullFrameLoop(rgb_bytes, 0, max_pixels_per_packet * 3,
                       sequence, datatype, destination_id, <<>>)

\* list.sort(key=lambda x: x[0]) is stable: equal indices keep their order
RECURSIVE SortedInsert(_, _)
SortedInsert(sorted, u) ==
    IF sorted = <<>> THEN <<u>>
    ELSE IF sorted[Len(sorted)][1] <= u[1] THEN Append(sorted, u)
    ELSE Append(SortedInsert(SubSeq(sorted, 1, Len(sorted) - 1), u), sorted[Len(sorted)])

RECURSIVE SortByIndex(_)
SortByIndex(updates_list) ==
    IF updates_list = <<>> THEN <<>>
    ELSE SortedInsert(SortByIndex(SubSeq(updates_list, 1, Len(updates_list) - 1)),
                      updates_list[Len(updates_list)])

\* the while loop of flush_run: an empty chunk leaves chunk_start where it was
RECURSIVE FlushRunLoop(_, _, _, _, _, _, _, _)
FlushRunLoop(rgb_bytes, offset, chunk_start, max_payload, sequence, datatype, destination_id, packets) ==
    IF ~(chunk_start < Len(rgb_bytes)) THEN Returned(packets)
    ELSE LET chunk == PySlice(rgb_bytes, chunk_start, chunk_start + max_payload)
         IN  IF ~StructPackFits(offset + chunk_start, Len(chunk)) THEN Raised("struct.error")
             ELSE IF Len(chunk) = 0 THEN Diverged
             ELSE FlushRunLoop(rgb_bytes, offset, chunk_start + Len(chunk), max_payload,
                      sequence, datatype, destination_id,
                      Append(packets,
                          Header(DDP_VER1, sequence, datatype, destination_id,
                                 offset + chunk_start, Len(chunk)) \o chunk))

flush_run(run_start_idx, run_pixels, max_payload, sequence, datatype, destination_id, packets) ==
    IF run_pixels = <<>> THEN Returned(packets)
    ELSE FlushRunLoop(rgb_bytes_from_colors(run_pixels), run_start_idx * 3, 0, max_payload,
                      sequence, datatype, destination_id, packets)

\* whether the for loop of build_ddp_sparse_packets appends idx to the open run
RunContinues(idx, run_start_idx, run_pixels, max_payload) ==
    LET expected_next == run_start_idx + Len(run_pixels)
    IN  idx = expected_next /\ Len(run_pixels) * 3 < max_payload - 3

\* the for loop of build_ddp_sparse_packets from entry i on, and the flush after it
RECURSIVE SparseLoop(_, _, _, _, _, _, _, _, _)
SparseLoop(updates_list, i, run_start_idx, run_pixels, max_payload, sequence, datatype, destination_id, packets) ==
    IF i > Len(updates_list)
    THEN flush_run(run_start_idx, run_pixels, max_payload, sequence, datatype,
                   destination_id, packets)
    ELSE LET idx   == updates_list[i][1]
             color == updates_list[i][2]
         IN  IF RunContinues(idx, run_start_idx, run_pixels, max_payload)
             THEN SparseLoop(updates_list, i + 1, run_start_idx, Append(run_pixels, color),
                      max_payload, sequence, datatype, destination_id, packets)
             ELSE LET flushed == flush_run(run_start_idx, run_pixels, max_payload, sequence,
                                           datatype, destination_id, packets)
                  IN  IF flushed.status # "ok" THEN flushed
                      ELSE SparseLoop(updates_list, i + 1, idx, <<color>>, max_payload,
                               sequence, datatype, destination_id, flushed.packets)

\* mutation of SetPushOnLast: PUSH set on the first packet of the list
SetPushOnFirst(packets) ==
    IF packets = <<>> THEN packets
    ELSE [packets EXCEPT ![1] = <<BitOr(@[1], DDP_PUSH)>> \o Tail(@)]

\* packets[-1] = bytes([packets[-1][0] | DDP_PUSH]) + packets[-1][1:]
SetPushOnLast(packets) ==
    IF packets = <<>> THEN packets
    ELSE [packets EXCEPT ![Len(packets)] = <<BitOr(@[1], DDP_PUSH)>> \o Tail(@)]

build_ddp_sparse_packets(pixel_updates, sequence, destination_id, max_pixels_per_packet, datatype) ==
    IF pixel_updates = <<>>
    THEN Returned(<< Header(BitOr(DDP_VER1, DDP_PUSH), sequence, datatype,
                            destination_id, 0, 0) >>)
    ELSE LET updates_list == SortByIndex(pixel_updates)
             built == SparseLoop(updates_list, 1, updates_list[1][1], <<>>,
                                 max_pixels_per_packet * 3, sequence, datatype,
                                 destination_id, <<>>)
         IN  IF built.status # "ok" THEN built
             ELSE Returned(SetPushOnLast(built.packets))

---------------------------------------------------------------------------------------------------------------------------------------------------
(* leddisplay/framebuffer.py                                               *)

\* the color a new framebuffer holds everywhere
Black == <<0, 0, 0>>

\* colors written to the framebuffer
FbColors == {Black, <<-5, 300, 7>>}

\* the sizes a framebuffer is created with
GridSizes == {wh \in (1..MaxPixels) \X (1..MaxPixels) : wh[1] * wh[2] <= MaxPixels}

\* range(self.width * self.height)
LogicalIndices == 0..(width * height - 1)

\* 0 <= x < self.width and 0 <= y < self.height
InBounds(x, y) == 0 <= x /\ x < width /\ 0 <= y /\ y < height

\* idx = y * self.width + x
PixelIndex(x, y) == y * width + x

\* mutation of StoredDiffers: every write counts as a change
StoredDiffers_always(idx, color) == TRUE

\* self._pixels[idx] != color
StoredDiffers(idx, color) == fb_pixels[idx] # color

\* mutation of DirtyAdd: the dirty set replaced by the index written
DirtyAdd_replaces(dirty, idx) == {idx}

\* self._dirty.add(idx)
DirtyAdd(dirty, idx) == dirty \cup {idx}

\* sorted(s) for a set of integers
RECURSIVE Sorted(_)
Sorted(s) ==
    IF s = {} THEN <<>>
    ELSE LET m == CHOOSE m \in s : \A j \in s : m <= j
         IN  <<m>> \o Sorted(s \ {m})

\* mutation of DirtyPixelsOf: each index paired with the color it held at the
\* last clear_dirty() instead of the color stored now
DirtyPixelsOf_stale(pixels, dirty) ==
    LET order == Sorted(dirty)
    IN  [k \in 1..Len(order) |-> <<order[k], fb_baseline[order[k]]>>]

\* [(idx, pixels[idx]) for idx in sorted(dirty)]
DirtyPixelsOf(pixels, dirty) ==
    LET order == Sorted(dirty)
    IN  [k \in 1..Len(order) |-> <<order[k], pixels[order[k]]>>]

\* what MatrixFramebuffer.get_dirty_pixels() returns
get_dirty_pixels == DirtyPixelsOf(fb_pixels, fb_dirty)

\* the record of a call: what was called, on which index, whether it returned
\* ("ok") or raised, whether it changed a stored color, and what it returned
FbCall(op, idx, status, changed, ret) ==
    [op |-> op, idx |-> idx, status |-> status, changed |-> changed, ret |-> ret]

\* the history of the framebuffer: fb_baseline and fb_cleared record what the
\* buffer held at the last clear_dirty() and whether clear() ran since; the
\* calls below leave them to the specification that keeps the history
fb_history == <<fb_baseline, fb_cleared>>

\* MatrixFramebuffer.__init__(width, height)
NewFramebuffer(w, h) ==
    /\ width = w
    /\ height = h
    /\ fb_pixels = [i \in 0..(w * h - 1) |-> Black]
    /\ fb_dirty = {}
    /\ fb_baseline = [i \in 0..(w * h - 1) |-> Black]
    /\ fb_cleared = FALSE
    /\ fb_call = FbCall("__init__", -1, "ok", FALSE, <<>>)

\* mutation of SetPixel: coordinates outside the grid are moved to its nearest cell
SetPixel_clamps(x, y, color) ==
    LET idx == PixelIndex(Max(0, Min(x, width - 1)), Max(0, Min(y, height - 1)))
    IN  /\ fb_call' = FbCall("set_pixel", idx, "ok", StoredDiffers(idx, color), <<>>)
        /\ fb_pixels' = [fb_pixels EXCEPT ![idx] = color]
        /\ fb_dirty' = IF StoredDiffers(idx, color) THEN DirtyAdd(fb_dirty, idx) ELSE fb_dirty
        /\ UNCHANGED <<width, height>>

\* MatrixFramebuffer.set_pixel(x, y, color)
SetPixel(x, y, color) ==
    IF ~InBounds(x, y)
    THEN /\ fb_call' = FbCall("set_pixel", -1, "ValueError", FALSE, <<>>)
         /\ UNCHANGED <<width, height, fb_pixels, fb_dirty>>
    ELSE LET idx == PixelIndex(x, y)
         IN  IF StoredDiffers(idx, color)
             THEN /\ fb_call' = FbCall("set_pixel", idx, "ok", TRUE, <<>>)
                  /\ fb_pixels' = [fb_pixels EXCEPT ![idx] = color]
                  /\ fb_dirty' = DirtyAdd(fb_dirty, idx)
                  /\ UNCHANGED <<width, height>>
             ELSE /\ fb_call' = FbCall("set_pixel", idx, "ok", FALSE, <<>>)
                  /\ UNCHANGED <<width, height, fb_pixels, fb_dirty>>

\* mutation of ClearTo: only the cells whose color changes are marked dirty
ClearTo_onlyChanged(op, color) ==
    /\ fb_pixels' = [i \in LogicalIndices |-> color]
    /\ fb_dirty' = fb_dirty \cup {i \in LogicalIndices : fb_pixels[i] # color}
    /\ fb_call' = FbCall(op, -1, "ok", TRUE, <<>>)
    /\ UNCHANGED <<width, height>>

\* MatrixFramebuffer.clear(color), under the name `op` it was called by
ClearTo(op, color) ==
    /\ fb_pixels' = [i \in LogicalIndices |-> color]
    /\ fb_dirty' = LogicalIndices
    /\ fb_call' = FbCall(op, -1, "ok", TRUE, <<>>)
    /\ UNCHANGED <<width, height>>

\* MatrixFramebuffer.clear(color)
Clear(color) == ClearTo("clear", color)

\* MatrixFramebuffer.fill(color): self.clear(color)
Fill(color) == ClearTo("fill", color)

\* MatrixFramebuffer.get_pixel(x, y)
GetPixel(x, y) ==
    /\ fb_call' = IF ~InBounds(x, y)
                  THEN FbCall("get_pixel", -1, "ValueError", FALSE, <<>>)
                  ELSE FbCall("get_pixel", PixelIndex(x, y), "ok", FALSE,
                              fb_pixels[PixelIndex(x, y)])
    /\ UNCHANGED <<width, height, fb_pixels, fb_dirty>>

\* MatrixFramebuffer.get_dirty_pixels()
GetDirtyPixels ==
    /\ fb_call' = FbCall("get_dirty_pixels", -1, "ok", FALSE, get_dirty_pixels)
    /\ UNCHANGED <<width, height, fb_pixels, fb_dirty>>

\* mutation of ClearDirty: the stored colors are reset along with the dirty set
ClearDirty_resetsPixels ==
    /\ fb_dirty' = {}
    /\ fb_pixels' = [i \in LogicalIndices |-> Black]
    /\ fb_call' = FbCall("clear_dirty", -1, "ok", FALSE, <<>>)
    /\ UNCHANGED <<width, height>>

\* MatrixFramebuffer.clear_dirty()
ClearDirty ==
    /\ fb_dirty' = {}
    /\ fb_call' = FbCall("clear_dirty", -1, "ok", FALSE, <<>>)
    /\ UNCHANGED <<width, height, fb_pixels>>

----------------------------------------------------------------------------
(* leddisplay/matrix_mapping.py                                            *)

\* what xy_to_index returns, or the error it raises
MapIndex(status, index) == [status |-> status, index |-> index]

\* mutation of xy_to_index: an odd row starts one cell too far to the right
xy_to_index_oddRowShifted(x, y, w, h, serpentine, start_corner) ==
    IF start_corner # "top_left" THEN MapIndex("NotImplementedError", -1)
    ELSE IF ~(0 <= x /\ x < w /\ 0 <= y /\ y < h) THEN MapIndex("ValueError", -1)
    ELSE IF serpentine
         THEN IF y % 2 = 0
              THEN MapIndex("ok", y * w + x)
              ELSE MapIndex("ok", y * w + (w - x))
         ELSE MapIndex("ok", y * w + x)

\* xy_to_index(x, y, width, height, serpentine, start_corner)
xy_to_index(x, y, w, h, serpentine, start_corner) ==
    IF start_corner # "top_left" THEN MapIndex("NotImplementedError", -1)
    ELSE IF ~(0 <= x /\ x < w /\ 0 <= y /\ y < h) THEN MapIndex("ValueError", -1)
    ELSE IF serpentine
         THEN IF y % 2 = 0
              THEN MapIndex("ok", y * w + x)
              ELSE MapIndex("ok", y * w + (w - 1 - x))
         ELSE MapIndex("ok", y * w + x)

----------------------------------------------------------------------------
(* leddisplay/display.py: construction of a MatrixDisplay                  *)

DDP_DEFAULT_PORT == 4048

DDP_DEFAULT_MAX_PIXELS_PER_PACKET == 480

\* the fields of a MatrixDisplay; mapping is _logical_to_physical
Display(w, h, output, mapping) ==
    [width |-> w, height |-> h, output |-> output, ddp_port |-> DDP_DEFAULT_PORT,
     ddp_destination_id |-> 1, mapping |-> mapping]

\* mapping = [0] * (self.width * self.height)
ZeroMapping(w, h) == [l \in 0..(w * h - 1) |-> 0]

\* one pass of the body of the loops of __post_init__, at logical_index = y * width + x
PostInitStep ==
    /\ post_init_next < display.width * display.height
    /\ LET x == post_init_next % display.width
           y == post_init_next \div display.width
           logical_index == y * display.width + x
       IN  display' = [display EXCEPT !.mapping[logical_index] =
                          xy_to_index(x, y, display.width, display.height,
                                      TRUE, "top_left").index]
    /\ post_init_next' = post_init_next + 1

\* the mapping __post_init__ leaves when its loops are done
LogicalToPhysical(w, h) ==
    [l \in 0..(w * h - 1) |-> xy_to_index(l % w, l \div w, w, h, TRUE, "top_left").index]

\* a MatrixDisplay after construction
NewDisplay(w, h, output) == Display(w, h, output, LogicalToPhysical(w, h))

----------------------------------------------------------------------------
(* leddisplay/ddp.py (DDPClient) and leddisplay/wled_controller.py         *)

\* WLEDController._ddp is None
NoClient ==
    [open |-> FALSE, port |-> 0, destination_id |-> 0,
     max_pixels_per_packet |-> 0, sequence |-> 0]

\* DDPClient(host, port, destination_id): __post_init__ sets _sequence = 1
NewDDPClient(port, destination_id) ==
    [open |-> TRUE, port |-> port, destination_id |-> destination_id,
     max_pixels_per_packet |-> DDP_DEFAULT_MAX_PIXELS_PER_PACKET, sequence |-> 1]

\* DDPClient(host, port, destination_id, max_pixels_per_packet)
DDPClient(port, destination_id, max_pixels_per_packet) ==
    [open |-> TRUE, port |-> port, destination_id |-> destination_id,
     max_pixels_per_packet |-> max_pixels_per_packet, sequence |-> 1]

\* WLEDController._get_ddp_client(ddp_port, destination_id): the client it returns
\* and caches
_get_ddp_client(client, ddp_port, destination_id) ==
    IF ~client.open \/ client.port # ddp_port \/ client.destination_id # destination_id
    THEN NewDDPClient(ddp_port, destination_id)
    ELSE client

\* how a send ended: the packets built, those handed to sendto before any
\* failure, and the client with its sequence counter afterwards
SendResult(status, built, sent, client) ==
    [status |-> status, built |-> built, sent |-> sent, client |-> client]

\* the sendto loop and the increment of _sequence that follows it; sendto number
\* fail_at raises OSError (fail_at = 0: none does), which leaves the loop and
\* the method
\* SendPackets with the counter wrapping after 16 instead of after 15
SendPackets_wrap16(client, encoded, fail_at) ==
    IF encoded.status # "ok" THEN SendResult(encoded.status, <<>>, <<>>, client)
    ELSE IF fail_at \in 1..Len(encoded.packets)
         THEN SendResult("OSError", encoded.packets,
                         SubSeq(encoded.packets, 1, fail_at - 1), client)
    ELSE SendResult("ok", encoded.packets, encoded.packets,
                    [client EXCEPT !.sequence = (client.sequence % 16) + 1])

SendPackets(client, encoded, fail_at) ==
    IF encoded.status # "ok" THEN SendResult(encoded.status, <<>>, <<>>, client)
    ELSE IF fail_at \in 1..Len(encoded.packets)
         THEN SendResult("OSError", encoded.packets,
                         SubSeq(encoded.packets, 1, fail_at - 1), client)
    ELSE SendResult("ok", encoded.packets, encoded.packets,
                    [client EXCEPT !.sequence = (client.sequence % 15) + 1])

\* DDPClient.send_rgb_bytes(rgb_bytes)
send_rgb_bytes(client, rgb_bytes, fail_at) ==
    SendPackets(client,
        build_ddp_packets(rgb_bytes, client.sequence,
            client.destination_id, client.max_pixels_per_packet, DDP_DATATYPE_RGB_8),
        fail_at)

\* DDPClient.send_colors(colors): self.send_rgb_bytes(rgb_bytes_from_colors(colors))
send_colors(client, colors, fail_at) ==
    send_rgb_bytes(client, rgb_bytes_from_colors(colors), fail_at)

\* DDPClient.send_sparse_update(pixel_updates)
send_sparse_update(client, pixel_updates, fail_at) ==
    SendPackets(client,
        build_ddp_sparse_packets(pixel_updates, client.sequence,
            client.destination_id, client.max_pixels_per_packet, DDP_DATATYPE_RGB_8),
        fail_at)

\* WLEDController.set_pixels_ddp(colors, ddp_port=, destination_id=)
set_pixels_ddp(colors, ddp_port, destination_id, fail_at) ==
    send_colors(_get_ddp_client(ctl_ddp, ddp_port, destination_id), colors, fail_at)

\* WLEDController.set_pixels_ddp_sparse(pixel_updates, ddp_port=, destination_id=)
set_pixels_ddp_sparse(pixel_updates, ddp_port, destination_id, fail_at) ==
    send_sparse_update(_get_ddp_client(ctl_ddp, ddp_port, destination_id),
                       pixel_updates, fail_at)

\* int(max(0, min(255, v)))
ClampChannel(v) == Max(0, Min(255, v))

\* WLEDController.set_pixels(colors): the color list posted to /json/state, or
\* the error raise_for_status (or the session) raises when the post fails
set_pixels(colors, fail_at) ==
    IF fail_at > 0 THEN [status |-> "HTTPError", posted |-> <<>>]
    ELSE [status |-> "ok",
          posted |-> [k \in 1..Len(colors) |->
                         <<ClampChannel(colors[k][1]), ClampChannel(colors[k][2]),
                           ClampChannel(colors[k][3])>>]]

----------------------------------------------------------------------------
(* leddisplay/display.py: MatrixDisplay.show                               *)

\* the record of a show(): the path it took ("noop": nothing dirty, "sparse",
\* "full", "json"), how it ended, the dirty list it read, the updates or the
\* frame it handed to the controller, the packets built and those handed to
\* the socket, and the color list posted in json mode
ShowCall(path, status, dirty, updates, out, built, sent, posted) ==
    [path |-> path, status |-> status, dirty |-> dirty, updates |-> updates,
     out |-> out, built |-> built, sent |-> sent, posted |-> posted]

\* the last step was not a show()
NoShow == ShowCall("none", "none", <<>>, <<>>, <<>>, <<>>, <<>>, <<>>)

\* MatrixFramebuffer.get_pixel(x, y): the stored color, or no color when the
\* call raises ValueError because (x, y) is outside the grid
get_pixel(x, y) == IF InBounds(x, y) THEN fb_pixels[PixelIndex(x, y)] ELSE <<>>

\* a get_pixel of the loops that fill `out` raises
GetPixelRaises ==
    \E logical_index \in 0..(display.width * display.height - 1) :
        ~InBounds(logical_index % display.width, logical_index \div display.width)

\* the loops that fill `out`: out[mapping[logical_index]] = framebuffer.get_pixel(x, y)
RECURSIVE RemapLoop(_, _)
RemapLoop(out, logical_index) ==
    IF logical_index >= display.width * display.height THEN out
    ELSE LET x == logical_index % display.width
             y == logical_index \div display.width
         IN  RemapLoop([out EXCEPT ![display.mapping[logical_index]] = get_pixel(x, y)],
                       logical_index + 1)

\* mutation of FullFrameOut: the frame in logical order, the mapping not applied
FullFrameOut_logicalOrder ==
    [k \in 1..(display.width * display.height) |-> fb_pixels[k - 1]]

\* the list `out` of a full frame, physical index p at position p + 1
FullFrameOut ==
    LET out == RemapLoop([p \in 0..(display.width * display.height - 1) |-> Black], 0)
    IN  [k \in 1..(display.width * display.height) |-> out[k - 1]]

\* mutation of PhysicalUpdates: the logical indices sent as they are
PhysicalUpdates_unmapped(dirty_logical) ==
    [k \in 1..Len(dirty_logical) |-> <<dirty_logical[k][1], dirty_logical[k][2]>>]

\* physical_updates: the dirty list with each logical index mapped
PhysicalUpdates(dirty_logical) ==
    [k \in 1..Len(dirty_logical) |->
        <<display.mapping[dirty_logical[k][1]], dirty_logical[k][2]>>]

\* mutation of NothingDirty: an empty dirty list is not told apart
NothingDirty_never(dirty_logical) == FALSE

\* not dirty_logical
NothingDirty(dirty_logical) == dirty_logical = <<>>

\* mutation of TakesSparsePath: a dirty count equal to the threshold goes sparse
TakesSparsePath_inclusive(dirty_logical) ==
    LET threshold == (display.width * display.height) \div 2
    IN  Len(dirty_logical) <= threshold /\ Len(dirty_logical) > 0

\* len(dirty_logical) < threshold and len(dirty_logical) > 0
TakesSparsePath(dirty_logical) ==
    LET threshold == (display.width * display.height) \div 2
    IN  Len(dirty_logical) < threshold /\ Len(dirty_logical) > 0

\* the framebuffer after a show() that raised before it reached clear_dirty():
\* the last call it made on the buffer is all that is recorded
FbAfterRaise(last_call) ==
    /\ fb_call' = last_call
    /\ UNCHANGED <<width, height, fb_pixels, fb_dirty>>

\* the last get_pixel of the loops that fill `out`
LastGetPixel ==
    FbCall("get_pixel", width * height - 1, "ok", FALSE, fb_pixels[width * height - 1])

\* show() ends with the ValueError of get_pixel: nothing was handed to the controller
ShowRaisedInLoop(path, dirty_logical) ==
    /\ show_call' = ShowCall(path, "ValueError", dirty_logical, <<>>, <<>>, <<>>, <<>>, <<>>)
    /\ FbAfterRaise(FbCall("get_pixel", -1, "ValueError", FALSE, <<>>))
    /\ UNCHANGED ctl_ddp

\* the ddp branch of show(); sendto number fail_at raises (0: none)
ShowDdp(fail_at) ==
    LET dirty_logical == get_dirty_pixels
    IN  IF NothingDirty(dirty_logical)
        THEN /\ ClearDirty
             /\ show_call' = ShowCall("noop", "ok", dirty_logical, <<>>, <<>>, <<>>, <<>>, <<>>)
             /\ UNCHANGED ctl_ddp
        ELSE IF TakesSparsePath(dirty_logical)
        THEN LET physical_updates == PhysicalUpdates(dirty_logical)
                 res == set_pixels_ddp_sparse(physical_updates, display.ddp_port,
                                              display.ddp_destination_id, fail_at)
             IN  /\ ctl_ddp' = res.client
                 /\ show_call' = ShowCall("sparse", res.status, dirty_logical,
                                          physical_updates, <<>>, res.built, res.sent, <<>>)
                 /\ IF res.status = "ok" THEN ClearDirty
                    ELSE FbAfterRaise(FbCall("get_dirty_pixels", -1, "ok", FALSE, dirty_logical))
        ELSE IF GetPixelRaises THEN ShowRaisedInLoop("full", dirty_logical)
        ELSE LET out == FullFrameOut
                 res == set_pixels_ddp(out, display.ddp_port,
                                       display.ddp_destination_id, fail_at)
             IN  /\ ctl_ddp' = res.client
                 /\ show_call' = ShowCall("full", res.status, dirty_logical,
                                          <<>>, out, res.built, res.sent, <<>>)
                 /\ IF res.status = "ok" THEN ClearDirty ELSE FbAfterRaise(LastGetPixel)

\* the json branch of show(); the post fails when fail_at > 0
ShowJson(fail_at) ==
    IF GetPixelRaises THEN ShowRaisedInLoop("json", <<>>)
    ELSE
    LET out == FullFrameOut
        res == set_pixels(out, fail_at)
    IN  /\ show_call' = ShowCall("json", res.status, <<>>, <<>>, out, <<>>, <<>>, res.posted)
        /\ FbAfterRaise(LastGetPixel)
        /\ UNCHANGED ctl_ddp

\* mutation of SizeMismatch: the pixel counts are compared, not the two sides
SizeMismatch_areaOnly == width * height # display.width * display.height

\* framebuffer.width != self.width or framebuffer.height != self.height
SizeMismatch == width # display.width \/ height # display.height

\* MatrixDisplay.show(framebuffer)
Show(fail_at) ==
    /\ IF SizeMismatch
       THEN /\ show_call' = ShowCall("none", "ValueError", <<>>, <<>>, <<>>, <<>>, <<>>, <<>>)
            /\ UNCHANGED <<width, height, fb_pixels, fb_dirty, fb_call, ctl_ddp>>
       ELSE IF display.output = "ddp" THEN ShowDdp(fail_at) ELSE ShowJson(fail_at)
    /\ UNCHANGED <<display, post_init_next>>

\* the display while it is not exercised: a constructed 1x1 display, no client
DisplayIdle ==
    /\ display = NewDisplay(1, 1, "json")
    /\ post_init_next = 1
    /\ ctl_ddp = NoClient
    /\ show_call = NoShow

----------------------------------------------------------------------------
(* A DDPClient used directly, and xy_to_index called directly.             *)

\* the record of a send: the method, how it ended, which sendto was made to
\* fail (0: none), the packets built and those handed to the socket
SendCall(op, status, fail_at, built, sent) ==
    [op |-> op, status |-> status, fail_at |-> fail_at, built |-> built, sent |-> sent]

\* no send was made yet
NoSend == SendCall("none", "none", 0, <<>>, <<>>)

\* ddp_client.send_rgb_bytes(rgb_bytes)
SendRgbBytes(rgb_bytes, fail_at) ==
    LET res == send_rgb_bytes(ddp_client, rgb_bytes, fail_at)
    IN  /\ ddp_client' = res.client
        /\ send_call' = SendCall("send_rgb_bytes", res.status, fail_at, res.built, res.sent)

\* ddp_client.send_sparse_update(pixel_updates)
SendSparseUpdate(pixel_updates, fail_at) ==
    LET res == send_sparse_update(ddp_client, pixel_updates, fail_at)
    IN  /\ ddp_client' = res.client
        /\ send_call' = SendCall("send_sparse_update", res.status, fail_at, res.built, res.sent)

\* the record of an xy_to_index call
MapCall(x, y, w, h, serpentine, start_corner, result) ==
    [x |-> x, y |-> y, width |-> w, height |-> h, serpentine |-> serpentine,
     start_corner |-> start_corner, status |-> result.status, index |-> result.index]

\* no xy_to_index call was made yet
NoMapCall == MapCall(0, 0, 0, 0, TRUE, "top_left", MapIndex("none", -1))

\* xy_to_index(x, y, width, height, serpentine, start_corner)
XyToIndex(x, y, w, h, serpentine, start_corner) ==
    map_call' = MapCall(x, y, w, h, serpentine, start_corner,
                        xy_to_index(x, y, w, h, serpentine, start_corner))

\* no game is played
NoGame == [width |-> 0, height |-> 0]

\* no SnakeGame call was made yet
NoGameCall == [op |-> "none"]

SenderIdle == ddp_client = NoClient /\ send_call = NoSend

CoordsIdle == map_call = NoMapCall /\ fb_args = <<>>

GameIdle == game = NoGame /\ game_call = NoGameCall

\* no device is listening
ReceiverIdle == receiver = <<>>

\* the sender, the calls made with coordinates, the game and the device while
\* they are not exercised
AuxIdle == SenderIdle /\ CoordsIdle /\ GameIdle /\ ReceiverIdle

----------------------------------------------------------------------------
(* The encoders as calls: the initial state holds one call with arguments  *)
(* drawn from the sets above, and the action of that encoder makes it and  *)
(* records what it produced.                                               *)

EncCall(op, rgb_bytes, pixel_updates, h, mpp) ==
    [op |-> op, rgb_bytes |-> rgb_bytes, pixel_updates |-> pixel_updates,
     sequence |-> h[1], destination_id |-> h[2], max_pixels_per_packet |-> mpp]

NoCall == EncCall("none", <<>>, <<>>, <<0, 0>>, 0)

\* the call has not been made yet
Pending == [status |-> "pending", packets |-> <<>>]

EncCalls ==
    {EncCall("build_ddp_packets", rgb_bytes, <<>>, h, mpp) :
        rgb_bytes \in ByteStrings, h \in HeaderArgs, mpp \in MaxPixelsArgs}
    \cup
    {EncCall("build_ddp_sparse_packets", <<>>, pixel_updates, h, mpp) :
        pixel_updates \in UpdateLists, h \in HeaderArgs, mpp \in MaxPixelsArgs}

BuildDdpPackets ==
    /\ enc_call.op = "build_ddp_packets"
    /\ enc_result = Pending
    /\ enc_result' = build_ddp_packets(enc_call.rgb_bytes, enc_call.sequence,
                         enc_call.destination_id, enc_call.max_pixels_per_packet,
                         DDP_DATATYPE_RGB_8)
    /\ UNCHANGED <<enc_call, width, height, fb_pixels, fb_dirty, fb_baseline,
                   fb_cleared, fb_call, disp_vars, aux_vars>>

BuildDdpSparsePackets ==
    /\ enc_call.op = "build_ddp_sparse_packets"
    /\ enc_result = Pending
    /\ enc_result' = build_ddp_sparse_packets(enc_call.pixel_updates, enc_call.sequence,
                         enc_call.destination_id, enc_call.max_pixels_per_packet,
                         DDP_DATATYPE_RGB_8)
    /\ UNCHANGED <<enc_call, width, height, fb_pixels, fb_dirty, fb_baseline,
                   fb_cleared, fb_call, disp_vars, aux_vars>>

\* the framebuffer while only the encoders are exercised
FbIdle == NewFramebuffer(1, 1)

EncIdle ==
    /\ enc_call = NoCall
    /\ enc_result = Returned(<<>>)

InitEncoder ==
    /\ enc_call \in EncCalls
    /\ enc_result = Pending
    /\ FbIdle
    /\ DisplayIdle
    /\ AuxIdle

NextEncoder == BuildDdpPackets \/ BuildDdpSparsePackets

SpecEncoder == InitEncoder /\ [][NextEncoder]_vars

----------------------------------------------------------------------------
(* build_ddp_packets on long frames: byte strings and packet sizes around  *)
(* the largest payload length a header can carry.                          *)

\* the lengths of the long byte strings
WideLengths == {USHRT_MAX + k : k \in (-1)..MaxOver}

\* max_pixels_per_packet around USHRT_MAX / 3
WidePixelsArgs == {USHRT_MAX \div 3 + k : k \in (-1)..MaxOver}

\* the <<sequence, destination_id>> pairs of HeaderArgs that are accepted
WideHeaderArgs == {h \in HeaderArgs : h[2] \in 0..255}

WideCalls ==
    {EncCall("build_ddp_packets", [i \in 1..n |-> 255], <<>>, h, mpp) :
        n \in WideLengths, h \in WideHeaderArgs, mpp \in WidePixelsArgs}

InitWide ==
    /\ enc_call \in WideCalls
    /\ enc_result = Pending
    /\ FbIdle
    /\ DisplayIdle
    /\ AuxIdle

SpecWide == InitWide /\ [][BuildDdpPackets]_vars

----------------------------------------------------------------------------
(* The framebuffer as a state machine: created at one of the sizes, then   *)
(* any sequence of calls by its single writer.                             *)

Init ==
    /\ EncIdle
    /\ AuxIdle
    /\ DisplayIdle
    /\ \E wh \in GridSizes : NewFramebuffer(wh[1], wh[2])

\* the coordinates set_pixel is called with: every cell of the grid, and one
\* step outside it on each of its four sides
PixelArgs ==
    ((0..(width - 1)) \X (0..(height - 1)))
        \cup {<<-1, 0>>, <<width, 0>>, <<0, -1>>, <<0, height>>}

\* the history after clear() or fill()
HistoryOfClear == fb_cleared' = TRUE /\ UNCHANGED fb_baseline

\* the history after clear_dirty()
HistoryOfClearDirty == fb_baseline' = fb_pixels /\ fb_cleared' = FALSE

CallSetPixel ==
    \E xy \in PixelArgs, color \in FbColors :
        SetPixel(xy[1], xy[2], color) /\ UNCHANGED <<fb_history, enc_vars, disp_vars, aux_vars>>

CallClear ==
    \E color \in FbColors : Clear(color) /\ HistoryOfClear /\ UNCHANGED <<enc_vars, disp_vars, aux_vars>>

CallFill ==
    \E color \in FbColors : Fill(color) /\ HistoryOfClear /\ UNCHANGED <<enc_vars, disp_vars, aux_vars>>

CallGetDirtyPixels == GetDirtyPixels /\ UNCHANGED <<fb_history, enc_vars, disp_vars, aux_vars>>

CallClearDirty == ClearDirty /\ HistoryOfClearDirty /\ UNCHANGED <<enc_vars, disp_vars, aux_vars>>

Next == CallSetPixel \/ CallClear \/ CallFill \/ CallGetDirtyPixels \/ CallClearDirty

Spec == Init /\ [][Next]_vars

----------------------------------------------------------------------------
(* The construction of a display: __post_init__ fills the mapping table    *)
(* cell by cell.                                                           *)

\* the sizes a display is constructed with
MapperSizes == (1..MaxSide) \X (1..MaxSide)

InitMapper ==
    /\ EncIdle
    /\ AuxIdle
    /\ FbIdle
    /\ \E wh \in MapperSizes :
        display = Display(wh[1], wh[2], "ddp", ZeroMapping(wh[1], wh[2]))
    /\ post_init_next = 0
    /\ ctl_ddp = NoClient
    /\ show_call = NoShow

CallPostInit == PostInitStep /\ UNCHANGED <<enc_vars, fb_vars, ctl_ddp, show_call, aux_vars>>

NextMapper == CallPostInit

SpecMapper == InitMapper /\ [][NextMapper]_vars

----------------------------------------------------------------------------
(* A renderer and a display: the renderer writes to a framebuffer of the   *)
(* display's size and shows it; only show() calls clear_dirty().           *)

InitDisplay ==
    /\ EncIdle
    /\ AuxIdle
    /\ \E wh \in GridSizes, output \in {"json", "ddp"} :
        /\ NewFramebuffer(wh[1], wh[2])
        /\ display = NewDisplay(wh[1], wh[2], output)
        /\ post_init_next = wh[1] * wh[2]
    /\ ctl_ddp = NoClient
    /\ show_call = NoShow

\* what a framebuffer call leaves alone
RenderUnchanged ==
    /\ show_call' = NoShow
    /\ UNCHANGED <<enc_vars, fb_history, display, post_init_next, ctl_ddp, aux_vars>>

RenderSetPixel ==
    \E x \in 0..(width - 1), y \in 0..(height - 1), color \in FbColors :
        SetPixel(x, y, color) /\ RenderUnchanged

RenderClear == \E color \in FbColors : Clear(color) /\ RenderUnchanged

\* a show() while the cached client has sent at most MaxFrames frames
CallShow ==
    /\ ctl_ddp.sequence <= MaxFrames
    /\ \E fail_at \in 0..(display.width * display.height) :
        Show(fail_at) /\ UNCHANGED <<enc_vars, fb_history, aux_vars>>

NextDisplay == RenderSetPixel \/ RenderClear \/ CallShow

SpecDisplay == InitDisplay /\ [][NextDisplay]_vars

----------------------------------------------------------------------------
(* A display shown a framebuffer of any size, its own or another.          *)

\* the sizes of the framebuffers and displays paired with each other
PairedSizes == {wh \in GridSizes : wh[1] * wh[2] <= MaxPairedPixels}

InitPaired ==
    /\ EncIdle
    /\ AuxIdle
    /\ \E fb \in PairedSizes, d \in PairedSizes, output \in {"json", "ddp"} :
        /\ NewFramebuffer(fb[1], fb[2])
        /\ display = NewDisplay(d[1], d[2], output)
        /\ post_init_next = d[1] * d[2]
    /\ ctl_ddp = NoClient
    /\ show_call = NoShow

SpecPaired == InitPaired /\ [][NextDisplay]_vars

----------------------------------------------------------------------------
(* A sender: one DDPClient, constructed with a destination id and a packet *)
(* size, on which frames are sent one after the other.                     *)

\* the destination ids and packet sizes a client is constructed with
SenderArgs == {-1, 1, 256} \X ((-1)..2)

\* the byte strings sent as full frames
SenderByteStrings == {[i \in 1..n |-> 255] : n \in 0..MaxBytes}

\* the update collections sent as sparse frames: any set of pixel indices
SenderUpdates ==
    {[k \in 1..Cardinality(ix) |-> <<Sorted(ix)[k], <<255, 0, 128>>>>] :
        ix \in SUBSET (0..MaxIndex)}

\* the sendto that is made to fail: none, the first or the second
FailPoints == 0..2

InitSender ==
    /\ EncIdle
    /\ FbIdle
    /\ DisplayIdle
    /\ \E a \in SenderArgs : ddp_client = DDPClient(DDP_DEFAULT_PORT, a[1], a[2])
    /\ send_call = NoSend
    /\ CoordsIdle
    /\ ReceiverIdle
    /\ GameIdle

\* what a send leaves alone
SendUnchanged ==
    UNCHANGED <<enc_vars, fb_vars, disp_vars, map_call, fb_args, game_vars, receiver>>

\* a send that never returns is the last thing its caller does
Returns == send_call.status # "diverges"

CallSendRgbBytes ==
    /\ Returns
    /\ \E rgb_bytes \in SenderByteStrings, fail_at \in FailPoints :
        SendRgbBytes(rgb_bytes, fail_at) /\ SendUnchanged

CallSendSparseUpdate ==
    /\ Returns
    /\ \E pixel_updates \in SenderUpdates, fail_at \in FailPoints :
        SendSparseUpdate(pixel_updates, fail_at) /\ SendUnchanged

NextSender == CallSendRgbBytes \/ CallSendSparseUpdate

SpecSender == InitSender /\ [][NextSender]_vars

----------------------------------------------------------------------------
(* A WLEDController sending ddp frames to varying ports and destinations.  *)

\* the record of a controller call: the method, how it ended, the sendto made
\* to fail, the packets built and sent, the port and destination id asked
\* for, and how many DDPClient sockets the controller has open after it
CtlCall(op, status, fail_at, built, sent, ddp_port, destination_id, open_senders) ==
    [op |-> op, status |-> status, fail_at |-> fail_at, built |-> built, sent |-> sent,
     ddp_port |-> ddp_port, destination_id |-> destination_id,
     open_senders |-> open_senders]

\* the sockets open after _get_ddp_client(ddp_port, destination_id): a client
\* that is replaced is closed before the new one is created
OpenSendersAfter(client, ddp_port, destination_id, open_senders) ==
    IF ~client.open \/ client.port # ddp_port \/ client.destination_id # destination_id
    THEN (IF client.open THEN open_senders - 1 ELSE open_senders) + 1
    ELSE open_senders

\* the ports and destination ids the frames are sent to
CtlPorts == {DDP_DEFAULT_PORT, DDP_DEFAULT_PORT + 1}

CtlDestinations == {1, 2}

\* the frames sent in full
CtlFrames == {<<>>, <<Black>>, << <<-5, 300, 7>>, Black >>}

\* the frames sent as updates
CtlUpdates == {<<>>, << <<0, Black>> >>, << <<0, <<-5, 300, 7>> >>, <<MaxIndex, Black>> >>}

InitController ==
    /\ EncIdle
    /\ FbIdle
    /\ DisplayIdle
    /\ ddp_client = NoClient
    /\ send_call = CtlCall("none", "none", 0, <<>>, <<>>, 0, 0, 0)
    /\ CoordsIdle
    /\ ReceiverIdle
    /\ GameIdle

\* what a controller call leaves alone
CtlUnchanged ==
    UNCHANGED <<enc_vars, fb_vars, display, post_init_next, show_call, ddp_client,
                map_call, fb_args, game_vars, receiver>>

CtlSetPixelsDdp ==
    \E colors \in CtlFrames, ddp_port \in CtlPorts, destination_id \in CtlDestinations,
       fail_at \in 0..1 :
        LET res == set_pixels_ddp(colors, ddp_port, destination_id, fail_at)
        IN  /\ ctl_ddp' = res.client
            /\ send_call' = CtlCall("set_pixels_ddp", res.status, fail_at, res.built,
                                    res.sent, ddp_port, destination_id,
                                    OpenSendersAfter(ctl_ddp, ddp_port, destination_id,
                                                     send_call.open_senders))
            /\ CtlUnchanged

CtlSetPixelsDdpSparse ==
    \E pixel_updates \in CtlUpdates, ddp_port \in CtlPorts,
       destination_id \in CtlDestinations, fail_at \in 0..1 :
        LET res == set_pixels_ddp_sparse(pixel_updates, ddp_port, destination_id, fail_at)
        IN  /\ ctl_ddp' = res.client
            /\ send_call' = CtlCall("set_pixels_ddp_sparse", res.status, fail_at,
                                    res.built, res.sent, ddp_port, destination_id,
                                    OpenSendersAfter(ctl_ddp, ddp_port, destination_id,
                                                     send_call.open_senders))
            /\ CtlUnchanged

\* WLEDController.close(): the cached client is closed and forgotten
CtlClose ==
    /\ ctl_ddp' = NoClient
    /\ send_call' = CtlCall("close", "ok", 0, <<>>, <<>>, 0, 0,
                            IF ctl_ddp.open THEN send_call.open_senders - 1
                            ELSE send_call.open_senders)
    /\ CtlUnchanged

NextController == CtlSetPixelsDdp \/ CtlSetPixelsDdpSparse \/ CtlClose

SpecController == InitController /\ [][NextController]_vars

----------------------------------------------------------------------------
(* Calls made with coordinates: set_pixel and get_pixel on a framebuffer,  *)
(* xy_to_index for a grid of the framebuffer's size.  Each call is made    *)
(* with every cell of the grid and with one step outside it on each side.  *)

\* what a framebuffer call with coordinates leaves alone
CoordsUnchanged ==
    UNCHANGED <<fb_history, enc_vars, disp_vars, snd_vars, game_vars, receiver>>

\* the last step was not a framebuffer call
NoFbCall == FbCall("none", -1, "none", FALSE, <<>>)

\* the start corners xy_to_index is called with
StartCorners == {"top_left", "bottom_left"}

BoundsSetPixel ==
    \E xy \in PixelArgs, color \in FbColors :
        /\ SetPixel(xy[1], xy[2], color)
        /\ fb_args' = xy
        /\ map_call' = NoMapCall
        /\ CoordsUnchanged

BoundsGetPixel ==
    \E xy \in PixelArgs :
        /\ GetPixel(xy[1], xy[2])
        /\ fb_args' = xy
        /\ map_call' = NoMapCall
        /\ CoordsUnchanged

BoundsXyToIndex ==
    \E xy \in PixelArgs, serpentine \in BOOLEAN, start_corner \in StartCorners :
        /\ XyToIndex(xy[1], xy[2], width, height, serpentine, start_corner)
        /\ fb_call' = NoFbCall
        /\ fb_args' = <<>>
        /\ UNCHANGED <<width, height, fb_pixels, fb_dirty>>
        /\ CoordsUnchanged

NextBounds == BoundsSetPixel \/ BoundsGetPixel \/ BoundsXyToIndex

SpecBounds == Init /\ [][NextBounds]_vars

----------------------------------------------------------------------------
(* games/snake.py: SnakeGame.  Times are whole multiples of one unit, so   *)
(* that the accumulator's additions and subtractions are exact.            *)

UP == <<0, -1>>

DOWN == <<0, 1>>

LEFT == <<-1, 0>>

RIGHT == <<1, 0>>

Directions == {UP, DOWN, LEFT, RIGHT}

\* _is_opposite(a, b)
_is_opposite(a, b) == a[1] = -b[1] /\ a[2] = -b[2]

\* the cells of a game's grid
Cells(g) == (0..(g.width - 1)) \X (0..(g.height - 1))

\* the cells a snake lies on
Segments(snake) == {snake[k] : k \in DOMAIN snake}

\* mutation of _spawn_apple: a full board does not stop the game
_spawn_apple_keepsRunning(g) ==
    LET free == Cells(g) \ Segments(g._snake)
    IN  IF free = {}
        THEN {[g EXCEPT !._apple = g._snake[1]]}
        ELSE {[g EXCEPT !._apple = cell] : cell \in free}

\* SnakeGame._spawn_apple(): the games it can leave, one for each cell that
\* rng.choice can return
_spawn_apple(g) ==
    LET free == Cells(g) \ Segments(g._snake)
    IN  IF free = {}
        THEN {[g EXCEPT !.running = FALSE, !._apple = g._snake[1]]}
        ELSE {[g EXCEPT !._apple = cell] : cell \in free}

\* SnakeGame(width, height, seconds_per_tick, start_on_first_input) followed
\* by reset(), without initial overrides: the games it can construct
NewSnakeGame(w, h, seconds_per_tick, start_on_first_input) ==
    _spawn_apple([width |-> w, height |-> h,
                  seconds_per_tick |-> seconds_per_tick,
                  start_on_first_input |-> start_on_first_input,
                  running |-> TRUE,
                  paused |-> FALSE,
                  started |-> ~start_on_first_input,
                  _tick_accumulator |-> 0,
                  _snake |-> << <<w \div 2, h \div 2>> >>,
                  _direction |-> RIGHT,
                  _pending_direction |-> RIGHT,
                  _apple |-> <<0, 0>>])

\* mutation of step: no wall, the head leaves the grid
step_throughWalls(g) ==
    LET turned == [g EXCEPT !._direction = g._pending_direction]
        new_head == <<g._snake[1][1] + turned._direction[1],
                      g._snake[1][2] + turned._direction[2]>>
        eating == new_head = g._apple
        new_snake == IF eating THEN <<new_head>> \o g._snake
                     ELSE <<new_head>> \o SubSeq(g._snake, 1, Len(g._snake) - 1)
    IN  IF Cardinality(Segments(new_snake)) # Len(new_snake)
        THEN {[turned EXCEPT !.running = FALSE]}
        ELSE IF eating
        THEN _spawn_apple([turned EXCEPT !._snake = new_snake])
        ELSE {[turned EXCEPT !._snake = new_snake]}

\* mutation of step: the tail moves on also when the apple is eaten
step_tailAlwaysMoves(g) ==
    LET turned == [g EXCEPT !._direction = g._pending_direction]
        new_head == <<g._snake[1][1] + turned._direction[1],
                      g._snake[1][2] + turned._direction[2]>>
        eating == new_head = g._apple
        new_snake == <<new_head>> \o SubSeq(g._snake, 1, Len(g._snake) - 1)
    IN  IF new_head \notin Cells(g)
        THEN {[turned EXCEPT !.running = FALSE]}
        ELSE IF Cardinality(Segments(new_snake)) # Len(new_snake)
        THEN {[turned EXCEPT !.running = FALSE]}
        ELSE IF eating
        THEN _spawn_apple([turned EXCEPT !._snake = new_snake])
        ELSE {[turned EXCEPT !._snake = new_snake]}

\* mutation of step: the new head is checked against the snake before the tail moves
step_checksBeforeMove(g) ==
    LET turned == [g EXCEPT !._direction = g._pending_direction]
        new_head == <<g._snake[1][1] + turned._direction[1],
                      g._snake[1][2] + turned._direction[2]>>
        eating == new_head = g._apple
        new_snake == IF eating THEN <<new_head>> \o g._snake
                     ELSE <<new_head>> \o SubSeq(g._snake, 1, Len(g._snake) - 1)
    IN  IF new_head \notin Cells(g)
        THEN {[turned EXCEPT !.running = FALSE]}
        ELSE IF new_head \in Segments(g._snake)
        THEN {[turned EXCEPT !.running = FALSE]}
        ELSE IF eating
        THEN _spawn_apple([turned EXCEPT !._snake = new_snake])
        ELSE {[turned EXCEPT !._snake = new_snake]}

\* SnakeGame.step(): the games it can leave
step(g) ==
    LET turned == [g EXCEPT !._direction = g._pending_direction]
        new_head == <<g._snake[1][1] + turned._direction[1],
                      g._snake[1][2] + turned._direction[2]>>
        eating == new_head = g._apple
        new_snake == IF eating THEN <<new_head>> \o g._snake
                     ELSE <<new_head>> \o SubSeq(g._snake, 1, Len(g._snake) - 1)
    IN  IF new_head \notin Cells(g)
        THEN {[turned EXCEPT !.running = FALSE]}
        ELSE IF Cardinality(Segments(new_snake)) # Len(new_snake)
        THEN {[turned EXCEPT !.running = FALSE]}
        ELSE IF eating
        THEN _spawn_apple([turned EXCEPT !._snake = new_snake])
        ELSE {[turned EXCEPT !._snake = new_snake]}

\* a game in the course of an update, with the step() calls made so far and
\* how many of them moved the snake
Ticked(g, steps, moves) == [game |-> g, steps |-> steps, moves |-> moves]

\* mutation of UpdateLoop: a tick is due only when more than seconds_per_tick is accumulated
RECURSIVE UpdateLoop_strict(_)
UpdateLoop_strict(t) ==
    IF t.game._tick_accumulator > t.game.seconds_per_tick /\ t.game.running /\ ~t.game.paused
    THEN UNION {UpdateLoop_strict(Ticked(g, t.steps + 1,
                           IF g._snake # t.game._snake THEN t.moves + 1 ELSE t.moves)) :
                g \in step([t.game EXCEPT !._tick_accumulator = @ - t.game.seconds_per_tick])}
    ELSE {t}

\* the while loop of update()
RECURSIVE UpdateLoop(_)
UpdateLoop(t) ==
    IF t.game._tick_accumulator >= t.game.seconds_per_tick /\ t.game.running /\ ~t.game.paused
    THEN UNION {UpdateLoop(Ticked(g, t.steps + 1,
                           IF g._snake # t.game._snake THEN t.moves + 1 ELSE t.moves)) :
                g \in step([t.game EXCEPT !._tick_accumulator = @ - t.game.seconds_per_tick])}
    ELSE {t}

\* mutation of update: the time of a paused game is accumulated
update_accumulatesPaused(g, dt) ==
    IF ~g.running THEN {Ticked(g, 0, 0)}
    ELSE IF g.paused THEN {Ticked([g EXCEPT !._tick_accumulator = @ + dt], 0, 0)}
    ELSE IF ~g.started THEN {Ticked(g, 0, 0)}
    ELSE UpdateLoop(Ticked([g EXCEPT !._tick_accumulator = @ + dt], 0, 0))

\* SnakeGame.update(dt): the games it can leave
update(g, dt) ==
    IF ~g.running THEN {Ticked(g, 0, 0)}
    ELSE IF g.paused THEN {Ticked(g, 0, 0)}
    ELSE IF ~g.started THEN {Ticked(g, 0, 0)}
    ELSE UpdateLoop(Ticked([g EXCEPT !._tick_accumulator = @ + dt], 0, 0))

\* mutation of request_direction: the 180-degree check made against the pending direction
request_direction_checksPending(g, direction) ==
    IF direction \notin Directions THEN g
    ELSE IF g.start_on_first_input /\ ~g.started
    THEN [g EXCEPT !.started = TRUE, !._direction = direction,
                   !._pending_direction = direction]
    ELSE IF _is_opposite(g._pending_direction, direction) THEN g
    ELSE [g EXCEPT !._pending_direction = direction]

\* SnakeGame.request_direction(direction)
request_direction(g, direction) ==
    IF direction \notin Directions THEN g
    ELSE IF g.start_on_first_input /\ ~g.started
    THEN [g EXCEPT !.started = TRUE, !._direction = direction,
                   !._pending_direction = direction]
    ELSE IF _is_opposite(g._direction, direction) THEN g
    ELSE [g EXCEPT !._pending_direction = direction]

\* SnakeGame.toggle_pause()
toggle_pause(g) == [g EXCEPT !.paused = ~g.paused]

\* SnakeGame.quit()
quit(g) == [g EXCEPT !.running = FALSE]

\* the record of a SnakeGame call: its arguments, the step() calls it made,
\* how many of them moved the snake, and the direction of the last move the
\* head has made so far (<<0, 0>>: it has not moved yet)
GameCall(op, dt, direction, steps, moves, last_move) ==
    [op |-> op, dt |-> dt, direction |-> direction, steps |-> steps,
     moves |-> moves, last_move |-> last_move]

\* the grids a game is played on
GameSizes == {wh \in (1..MaxCells) \X (1..MaxCells) : wh[1] * wh[2] <= MaxCells}

\* the directions request_direction is called with: the four, and one that is none of them
DirectionArgs == Directions \cup {<<1, 1>>}

InitSnake ==
    /\ EncIdle
    /\ FbIdle
    /\ DisplayIdle
    /\ SenderIdle
    /\ CoordsIdle
    /\ ReceiverIdle
    /\ \E wh \in GameSizes, start_on_first_input \in BOOLEAN :
        game \in NewSnakeGame(wh[1], wh[2], TickUnits, start_on_first_input)
    /\ game_call = GameCall("__init__", 0, <<0, 0>>, 0, 0, <<0, 0>>)

\* what a SnakeGame call leaves alone
GameUnchanged ==
    UNCHANGED <<enc_vars, fb_vars, disp_vars, snd_vars, map_call, fb_args, receiver>>

CallRequestDirection ==
    \E direction \in DirectionArgs :
        /\ game' = request_direction(game, direction)
        /\ game_call' = GameCall("request_direction", 0, direction, 0, 0, game_call.last_move)
        /\ GameUnchanged

CallTogglePause ==
    /\ game' = toggle_pause(game)
    /\ game_call' = GameCall("toggle_pause", 0, <<0, 0>>, 0, 0, game_call.last_move)
    /\ GameUnchanged

CallQuit ==
    /\ game' = quit(game)
    /\ game_call' = GameCall("quit", 0, <<0, 0>>, 0, 0, game_call.last_move)
    /\ GameUnchanged

CallUpdate ==
    \E dt \in 0..MaxDt :
        \E t \in update(game, dt) :
            /\ game' = t.game
            /\ game_call' = GameCall("update", dt, <<0, 0>>, t.steps, t.moves,
                                     IF t.moves > 0 THEN t.game._direction
                                     ELSE game_call.last_move)
            /\ GameUnchanged

NextSnake == CallRequestDirection \/ CallTogglePause \/ CallQuit \/ CallUpdate

SpecSnake == InitSnake /\ [][NextSnake]_vars

\* step() called by its owner, outside update()
CallStep ==
    \E g \in step(game) :
        /\ game' = g
        /\ game_call' = GameCall("step", 0, <<0, 0>>, 1,
                                 IF g._snake # game._snake THEN 1 ELSE 0,
                                 IF g._snake # game._snake THEN g._direction
                                 ELSE game_call.last_move)
        /\ GameUnchanged

\* the game driven through every public method, step() included
NextSnakeSteps == NextSnake \/ CallStep

SpecSnakeSteps == InitSnake /\ [][NextSnakeSteps]_vars

----------------------------------------------------------------------------
(* step() applied to games constructed with initial_snake, initial_apple   *)
(* and initial_direction: any snake of up to MaxSnakeLen adjacent,         *)
(* distinct cells, the apple on any free cell.                             *)

\* the grids of those games
StepSizes == {wh \in (1..MaxStepCells) \X (1..MaxStepCells) : wh[1] * wh[2] <= MaxStepCells}

\* two cells side by side or one above the other
Adjacent(a, b) ==
    \/ a[1] = b[1] /\ (a[2] = b[2] + 1 \/ b[2] = a[2] + 1)
    \/ a[2] = b[2] /\ (a[1] = b[1] + 1 \/ b[1] = a[1] + 1)

\* a snake as the game draws it: distinct cells, each next to the one before
WellFormed(snake) ==
    /\ \A j, k \in DOMAIN snake : snake[j] = snake[k] => j = k
    /\ \A k \in 1..(Len(snake) - 1) : Adjacent(snake[k], snake[k + 1])

\* the snakes given to the constructor on a w x h grid
InitialSnakes(w, h) ==
    {snake \in UNION {[1..n -> (0..(w - 1)) \X (0..(h - 1))] : n \in 1..MaxSnakeLen} :
        WellFormed(snake)}

\* SnakeGame(w, h, start_on_first_input=False, initial_snake=..., initial_direction=...,
\* initial_apple=...)
SnakeGameWith(w, h, initial_snake, initial_direction, initial_apple) ==
    [width |-> w, height |-> h,
     seconds_per_tick |-> TickUnits,
     start_on_first_input |-> FALSE,
     running |-> TRUE,
     paused |-> FALSE,
     started |-> TRUE,
     _tick_accumulator |-> 0,
     _snake |-> initial_snake,
     _direction |-> initial_direction,
     _pending_direction |-> initial_direction,
     _apple |-> initial_apple]

InitStep ==
    /\ EncIdle
    /\ FbIdle
    /\ DisplayIdle
    /\ SenderIdle
    /\ CoordsIdle
    /\ ReceiverIdle
    /\ \E wh \in StepSizes :
        \E initial_snake \in InitialSnakes(wh[1], wh[2]), initial_direction \in Directions :
            \E initial_apple \in ((0..(wh[1] - 1)) \X (0..(wh[2] - 1))) \ Segments(initial_snake) :
                game = SnakeGameWith(wh[1], wh[2], initial_snake, initial_direction,
                                     initial_apple)
    /\ game_call = GameCall("__init__", 0, <<0, 0>>, 0, 0, <<0, 0>>)

\* one step() on the constructed game
FirstStep == game_call.op = "__init__" /\ CallStep

SpecStep == InitStep /\ [][FirstStep]_vars

----------------------------------------------------------------------------
(* A receiver's reading of a packet (tests/test_ddp.py, unpack_header).    *)

PacketFlags(p) == p[1]

PacketSequence(p) == p[2]

PacketDatatype(p) == p[3]

PacketDestination(p) == p[4]

PacketOffset(p) == p[5] * 16777216 + p[6] * 65536 + p[7] * 256 + p[8]

PacketLength(p) == p[9] * 256 + p[10]

PacketPayload(p) == SubSeq(p, DDP_HEADER_LEN + 1, Len(p))

HasPush(p) == PacketFlags(p) % 2 = 1

----------------------------------------------------------------------------
(* Properties of the encoders, under SpecEncoder.                          *)

CallMade == enc_result # Pending

IsFullFrame == enc_call.op = "build_ddp_packets"

IsSparse == enc_call.op = "build_ddp_sparse_packets"

\* the arguments both encoders are documented to accept
ValidArgs ==
    /\ enc_call.max_pixels_per_packet > 0
    /\ enc_call.destination_id >= 0
    /\ enc_call.destination_id <= 255

\* max_pixels_per_packet * 3
Ceiling == enc_call.max_pixels_per_packet * 3

UpdateIndices == {enc_call.pixel_updates[k][1] : k \in DOMAIN enc_call.pixel_updates}

DistinctIndices == Cardinality(UpdateIndices) = Len(enc_call.pixel_updates)

\* C1: every packet list an encoder returns for max_pixels_per_packet > 0 has
\* exactly one packet with the PUSH bit set, and that packet is the last of the list.
C1_PushOnLastOnly ==
    (enc_result.status = "ok" /\ enc_call.max_pixels_per_packet > 0) =>
        LET ps == enc_result.packets
        IN  /\ Len(ps) >= 1
            /\ \A k \in 1..Len(ps) : HasPush(ps[k]) <=> k = Len(ps)

C1_Witness ==
    /\ IsSparse /\ ValidArgs
    /\ enc_result.status = "ok"
    /\ Len(enc_result.packets) >= 2

\* the payloads of the packets with index in `left`, lowest offset first
RECURSIVE PayloadsByOffset(_, _)
PayloadsByOffset(ps, left) ==
    IF left = {} THEN <<>>
    ELSE LET k == CHOOSE k \in left : \A j \in left :
                      \/ PacketOffset(ps[k]) < PacketOffset(ps[j])
                      \/ (PacketOffset(ps[k]) = PacketOffset(ps[j]) /\ k <= j)
         IN  PacketPayload(ps[k]) \o PayloadsByOffset(ps, left \ {k})

\* C2: for any byte string and max_pixels_per_packet > 0, the payloads of the
\* full-frame packets, concatenated in ascending offset order, are the input bytes.
C2_PayloadsReassembleInput ==
    (IsFullFrame /\ ValidArgs /\ CallMade) =>
        /\ enc_result.status = "ok"
        /\ PayloadsByOffset(enc_result.packets, DOMAIN enc_result.packets)
               = enc_call.rgb_bytes

C2_Witness ==
    /\ IsFullFrame /\ ValidArgs
    /\ enc_result.status = "ok"
    /\ Len(enc_result.packets) >= 3
    /\ Len(enc_call.rgb_bytes) % Ceiling # 0

\* C3: full-frame encode of L > 0 bytes with ceiling M emits ceil(L/M) packets, the
\* k-th (from 0) at offset k*M, all but the last with M payload bytes, the last
\* with 1..M; the offsets ascend strictly.
C3_ChunkLayout ==
    (IsFullFrame /\ ValidArgs /\ CallMade /\ Len(enc_call.rgb_bytes) > 0) =>
        LET ps == enc_result.packets
            L  == Len(enc_call.rgb_bytes)
            M  == Ceiling
            n  == (L + M - 1) \div M
        IN  /\ enc_result.status = "ok"
            /\ Len(ps) = n
            /\ \A k \in 1..Len(ps) :
                /\ PacketOffset(ps[k]) = (k - 1) * M
                /\ PacketLength(ps[k]) = Len(PacketPayload(ps[k]))
                /\ k < Len(ps) => Len(PacketPayload(ps[k])) = M
                /\ k = Len(ps) => (1 <= Len(PacketPayload(ps[k]))
                                   /\ Len(PacketPayload(ps[k])) <= M)
                /\ k > 1 => PacketOffset(ps[k - 1]) < PacketOffset(ps[k])

C3_Witness ==
    /\ IsFullFrame /\ ValidArgs
    /\ enc_result.status = "ok"
    /\ Len(enc_result.packets) = 2
    /\ enc_call.max_pixels_per_packet = 2
    /\ Len(enc_call.rgb_bytes) = 7

\* the maximal runs <<s, n>> of consecutive indices among the updates
MaximalRuns ==
    {<<s, n>> \in UpdateIndices \X (1..(MaxIndex + 1)) :
        /\ (s - 1) \notin UpdateIndices
        /\ \A i \in s..(s + n - 1) : i \in UpdateIndices
        /\ (s + n) \notin UpdateIndices}

\* the packets (by position) that carry a byte of the run <<s, n>>
PacketsOfRun(ps, s, n) ==
    {k \in DOMAIN ps : PacketOffset(ps[k]) >= 3 * s /\ PacketOffset(ps[k]) < 3 * (s + n)}

\* C4: sparse encode of updates with distinct indices emits exactly one packet per
\* maximal run of consecutive indices that has at most max_pixels_per_packet
\* pixels: for the run of n pixels from index s, offset 3*s and length 3*n.
C4_OnePacketPerRun ==
    (IsSparse /\ ValidArgs /\ CallMade /\ DistinctIndices) =>
        /\ enc_result.status = "ok"
        /\ \A run \in MaximalRuns :
            run[2] <= enc_call.max_pixels_per_packet =>
                LET of_run == PacketsOfRun(enc_result.packets, run[1], run[2])
                IN  /\ Cardinality(of_run) = 1
                    /\ \A k \in of_run :
                        /\ PacketOffset(enc_result.packets[k]) = 3 * run[1]
                        /\ PacketLength(enc_result.packets[k]) = 3 * run[2]

\* the byte offsets of a receiver's buffer: one pixel more than any update reaches
ReceiverBytes == 0..(3 * (MaxIndex + 2) - 1)

\* a receiver's buffer holds <<>> where nothing was written and <<b>> where byte b was
Untouched == <<>>

\* the receiver writes a packet's payload at the packet's offset
ApplyPacket(buf, p) ==
    [o \in DOMAIN buf |->
        IF o >= PacketOffset(p) /\ o < PacketOffset(p) + Len(PacketPayload(p))
        THEN <<PacketPayload(p)[o - PacketOffset(p) + 1]>>
        ELSE buf[o]]

RECURSIVE ApplyPackets(_, _)
ApplyPackets(buf, ps) ==
    IF ps = <<>> THEN buf ELSE ApplyPackets(ApplyPacket(buf, ps[1]), Tail(ps))

\* a color channel as one byte: below 0 is 0, above 255 is 255
Saturated(v) == IF v < 0 THEN 0 ELSE IF v > 255 THEN 255 ELSE v

\* what the updates say the receiver must hold: the clamped channels of each
\* updated pixel at 3i..3i+2, nothing anywhere else
ExpectedBytes ==
    [o \in ReceiverBytes |->
        IF (o \div 3) \in UpdateIndices
        THEN LET u == CHOOSE u \in {enc_call.pixel_updates[k] : k \in DOMAIN enc_call.pixel_updates} :
                          u[1] = o \div 3
             IN  <<Saturated(u[2][(o % 3) + 1])>>
        ELSE Untouched]

\* C5: the packets of a sparse encode of updates with distinct indices, applied in
\* list order, write clamp(r), clamp(g), clamp(b) at 3i..3i+2 for every update
\* (i, (r,g,b)) and write no other byte.
C5_SparseWritesExactlyTheUpdates ==
    (IsSparse /\ ValidArgs /\ CallMade /\ DistinctIndices) =>
        /\ enc_result.status = "ok"
        /\ ApplyPackets([o \in ReceiverBytes |-> Untouched], enc_result.packets)
               = ExpectedBytes

C5_Witness ==
    /\ IsSparse /\ ValidArgs /\ DistinctIndices
    /\ enc_result.status = "ok"
    /\ Len(enc_call.pixel_updates) = 3
    /\ Len(enc_result.packets) = 2
    /\ \E k \in DOMAIN enc_call.pixel_updates : enc_call.pixel_updates[k][2][2] > 255

EmptyInput ==
    \/ IsFullFrame /\ enc_call.rgb_bytes = <<>>
    \/ IsSparse /\ enc_call.pixel_updates = <<>>

\* C6: an empty input (no bytes, no updates) yields exactly one packet: a bare
\* 10-byte header with offset 0, length 0, PUSH set and the sequence passed in.
C6_EmptyInputPushOnly ==
    (EmptyInput /\ ValidArgs /\ CallMade) =>
        /\ enc_result.status = "ok"
        /\ Len(enc_result.packets) = 1
        /\ LET p == enc_result.packets[1]
           IN  /\ Len(p) = DDP_HEADER_LEN
               /\ PacketOffset(p) = 0
               /\ PacketLength(p) = 0
               /\ HasPush(p)
               /\ PacketSequence(p) = enc_call.sequence

C6_Witness ==
    /\ IsFullFrame /\ ValidArgs
    /\ enc_call.rgb_bytes = <<>>
    /\ enc_result.status = "ok"
    /\ enc_call.sequence = 15

\* whether `payload` is what the call's input holds from byte `offset` on
PayloadCarries(payload, offset) ==
    IF IsFullFrame
    THEN /\ offset + Len(payload) <= Len(enc_call.rgb_bytes)
         /\ payload = SubSeq(enc_call.rgb_bytes, offset + 1, offset + Len(payload))
    ELSE \A j \in 1..Len(payload) :
            \E k \in DOMAIN enc_call.pixel_updates :
                LET u == enc_call.pixel_updates[k]
                    v == u[2][((offset + j - 1) % 3) + 1]
                IN  /\ u[1] = (offset + j - 1) \div 3
                    /\ payload[j] = Saturated(v)

\* C7: every packet of either encoder is a 10-byte header and a payload: byte 0 is
\* 0x40 or 0x41, byte 1 the caller's sequence, byte 2 0x0B, byte 3 the
\* destination id, bytes 4-7 the big-endian byte offset of the payload, bytes
\* 8-9 the big-endian payload length, and that many bytes follow the header.
C7_HeaderLayout ==
    (ValidArgs /\ CallMade) =>
        /\ enc_result.status = "ok"
        /\ \A k \in DOMAIN enc_result.packets :
            LET p == enc_result.packets[k]
                offset == p[5] * 16777216 + p[6] * 65536 + p[7] * 256 + p[8]
                length == p[9] * 256 + p[10]
            IN  /\ Len(p) >= DDP_HEADER_LEN
                /\ p[1] \in {64, 65}
                /\ p[2] = enc_call.sequence
                /\ p[3] = 11
                /\ p[4] = enc_call.destination_id
                /\ Len(p) - DDP_HEADER_LEN = length
                /\ PayloadCarries(SubSeq(p, DDP_HEADER_LEN + 1, Len(p)), offset)

C7_Witness ==
    /\ IsSparse /\ ValidArgs
    /\ enc_result.status = "ok"
    /\ \E k \in DOMAIN enc_result.packets :
        /\ enc_result.packets[k][8] = 6
        /\ enc_result.packets[k][10] = 3
        /\ enc_result.packets[k][2] = 255

----------------------------------------------------------------------------
(* Properties of the framebuffer, under Spec.                              *)

\* the indices whose stored color is not the one held at the last clear_dirty
ChangedSinceClearDirty == {i \in LogicalIndices : fb_pixels[i] # fb_baseline[i]}

\* C8: dirty tracking loses no change: every index whose stored color differs
\* from the color it held at the last clear_dirty is in the dirty set, and right
\* after clear(color) the dirty set is all of [0, W*H).
C8_NoChangeLost ==
    /\ ChangedSinceClearDirty \subseteq fb_dirty
    /\ fb_call.op \in {"clear", "fill"} => fb_dirty = LogicalIndices

C8_Witness ==
    /\ fb_call.op = "set_pixel"
    /\ fb_call.changed
    /\ ~fb_cleared
    /\ fb_baseline[fb_call.idx] # Black
    /\ Cardinality(ChangedSinceClearDirty) >= 2

\* how many entries of a get_dirty_pixels() list carry index idx
EntriesFor(entries, idx) == Cardinality({k \in DOMAIN entries : entries[k][1] = idx})

\* C9: set_pixel(x, y, c) with c the stored color leaves the grid and the dirty
\* set unchanged; with another color it stores c and the dirty set then holds
\* y*W+x exactly once (identical writes after it are writes of the stored color).
C9_SetPixelEffect ==
    [][(fb_call'.op = "set_pixel" /\ fb_call'.status = "ok") =>
        \A x \in 0..(width - 1), y \in 0..(height - 1), color \in FbColors :
          SetPixel(x, y, color) =>
              IF fb_pixels[y * width + x] = color
              THEN fb_pixels' = fb_pixels /\ fb_dirty' = fb_dirty
              ELSE /\ fb_pixels' = [fb_pixels EXCEPT ![y * width + x] = color]
                   /\ (y * width + x) \in fb_dirty'
                   /\ fb_dirty' \ {y * width + x} = fb_dirty \ {y * width + x}
                   /\ EntriesFor(DirtyPixelsOf(fb_pixels', fb_dirty'), y * width + x) = 1]_vars

C9_Witness ==
    /\ fb_call.op = "set_pixel"
    /\ fb_call.status = "ok"
    /\ ~fb_call.changed
    /\ fb_call.idx \in fb_dirty
    /\ ~fb_cleared
    /\ fb_pixels[fb_call.idx] # fb_baseline[fb_call.idx]

\* C10: with no clear() since the last clear_dirty, every entry (index, color)
\* that get_dirty_pixels returns has a color other than the one the index held
\* at the last clear_dirty, whatever set_pixel calls came in between.
C10_NoNoOpEntries ==
    (fb_call.op = "get_dirty_pixels" /\ ~fb_cleared) =>
        \A k \in DOMAIN fb_call.ret :
            fb_call.ret[k][2] # fb_baseline[fb_call.ret[k][1]]

\* C11: clear(color) stores color in every one of the W*H cells and makes the
\* dirty set all of [0, W*H), also when every cell already held color and the
\* dirty set was empty before the call.
C11_ClearMarksAllDirty ==
    [][\A color \in FbColors :
        Clear(color) =>
            /\ DOMAIN fb_pixels' = 0..(width * height - 1)
            /\ \A i \in 0..(width * height - 1) : fb_pixels'[i] = color
            /\ fb_dirty' = 0..(width * height - 1)]_vars

\* a clear() that repainted the colors the buffer held at the last
\* clear_dirty(), which were not the colors of a new buffer
C11_Witness ==
    /\ fb_call.op = "clear"
    /\ fb_pixels = fb_baseline
    /\ \A i \in LogicalIndices : fb_pixels[i] # Black
    /\ fb_dirty = LogicalIndices
    /\ width * height >= 3

\* C12: get_dirty_pixels() returns one entry per dirty index, none twice, in
\* strictly ascending index order, each with the color stored at that index
\* now, and leaves the buffer as it was.
C12_DirtyPixelsSortedCurrent ==
    [][fb_call'.op = "get_dirty_pixels" =>
        LET ret == fb_call'.ret
        IN  /\ {ret[k][1] : k \in DOMAIN ret} = fb_dirty
            /\ Len(ret) = Cardinality(fb_dirty)
            /\ \A k \in 1..(Len(ret) - 1) : ret[k][1] < ret[k + 1][1]
            /\ \A k \in DOMAIN ret : ret[k][2] = fb_pixels[ret[k][1]]
            /\ UNCHANGED <<width, height, fb_pixels, fb_dirty>>]_vars

\* a list of two or more entries, one of an index written more than once: it
\* is dirty and holds again the color it had at the last clear_dirty()
C12_Witness ==
    /\ fb_call.op = "get_dirty_pixels"
    /\ ~fb_cleared
    /\ Len(fb_call.ret) >= 2
    /\ \E k \in DOMAIN fb_call.ret :
        /\ fb_call.ret[k][2] = fb_baseline[fb_call.ret[k][1]]
        /\ fb_call.ret[k][2] # Black
    /\ \E k \in DOMAIN fb_call.ret :
        fb_call.ret[k][2] # fb_baseline[fb_call.ret[k][1]]

\* C13: clear_dirty() leaves the dirty set empty and every stored color, the
\* width and the height as they were.
C13_ClearDirtyKeepsPixels ==
    [][fb_call'.op = "clear_dirty" =>
        /\ fb_dirty' = {}
        /\ fb_pixels' = fb_pixels
        /\ width' = width
        /\ height' = height]_vars

\* a clear_dirty() on a buffer that holds colors other than a new buffer's
C13_Witness ==
    /\ fb_call.op = "clear_dirty"
    /\ fb_dirty = {}
    /\ \E i \in LogicalIndices : fb_pixels[i] # Black
    /\ \E i \in LogicalIndices : fb_pixels[i] = Black

----------------------------------------------------------------------------
(* Properties of the mapping table, under SpecMapper.                      *)

\* __post_init__ has run to its end
Constructed == post_init_next = display.width * display.height

\* C20: for every width and height from 1 up, the table built from xy_to_index
\* (y*W+x on even rows, y*W+(W-1-x) on odd rows) is a bijection from [0, W*H)
\* onto [0, W*H): no two logical indices share a physical index and every
\* physical index is used.
C20_MappingIsBijection ==
    Constructed =>
        LET W == display.width
            H == display.height
            m == display.mapping
        IN  /\ DOMAIN m = 0..(W * H - 1)
            /\ \A x \in 0..(W - 1), y \in 0..(H - 1) :
                m[y * W + x] = IF y % 2 = 0 THEN y * W + x ELSE y * W + (W - 1 - x)
            /\ \A a, b \in DOMAIN m : m[a] = m[b] => a = b
            /\ {m[l] : l \in DOMAIN m} = 0..(W * H - 1)

\* a constructed 3x3 table: its middle row is reversed, its last row is not
C20_Witness ==
    /\ Constructed
    /\ display.width = 3 /\ display.height = 3
    /\ display.mapping[3] = 5 /\ display.mapping[5] = 3
    /\ display.mapping[6] = 6

----------------------------------------------------------------------------
(* Properties of show(), under SpecDisplay.                                *)

\* the bytes a receiver holds after the packets, lowest offset first
StreamOf(packets) == PayloadsByOffset(packets, DOMAIN packets)

C15_UnderHalfDirtyGoesSparse ==
    [][(/\ show_call'.status # "none"
        /\ display.output = "ddp"
        /\ Cardinality(fb_dirty) > 0
        /\ 2 * Cardinality(fb_dirty) < width * height) =>
            /\ show_call'.path = "sparse"
            /\ Len(show_call'.updates) = Cardinality(fb_dirty)
            /\ show_call'.out = <<>>]_vars

\* C16: in ddp mode a show() of a buffer with nothing dirty sends nothing: no
\* controller send, no packet built, the client and its sequence counter and the
\* pixels unchanged, and the dirty set still empty, so that the next show() is
\* the same null call.
C16_NothingDirtyNothingSent ==
    [][(/\ show_call'.status # "none"
        /\ display.output = "ddp"
        /\ width = display.width /\ height = display.height
        /\ fb_dirty = {}) =>
            /\ show_call'.path = "noop"
            /\ show_call'.status = "ok"
            /\ show_call'.updates = <<>> /\ show_call'.out = <<>>
            /\ show_call'.built = <<>> /\ show_call'.sent = <<>>
            /\ ctl_ddp' = ctl_ddp
            /\ fb_pixels' = fb_pixels
            /\ fb_dirty' = {}]_vars

\* a null show() after a frame was sent: the client's counter stays at 2
C16_Witness ==
    /\ show_call.path = "noop"
    /\ ctl_ddp.open
    /\ ctl_ddp.sequence = 2
    /\ \E i \in LogicalIndices : fb_pixels[i] # Black

\* C17: in ddp mode, whenever show() attempts a send (the dirty set is not
\* empty), the dirty set is empty when show() finishes, whether the send
\* succeeded or the transport raised.
C17_DirtyClearedWinOrLose ==
    [][(/\ show_call'.status # "none"
        /\ display.output = "ddp"
        /\ width = display.width /\ height = display.height
        /\ fb_dirty # {}) =>
            fb_dirty' = {}]_vars

\* C18: in json mode every successful show() sends all W*H pixels of the frame
\* and leaves the dirty set empty.
C18_JsonShowClearsDirty ==
    [][(/\ show_call'.status = "ok"
        /\ display.output = "json") =>
            /\ Len(show_call'.posted) = width * height
            /\ fb_dirty' = {}]_vars

\* the logical index whose cell xy_to_index sends to physical index p
LogicalAt(p) ==
    CHOOSE l \in LogicalIndices :
        xy_to_index(l % width, l \div width, width, height, TRUE, "top_left").index = p

\* C19: what show() transmits is addressed by physical index: position p of a
\* full frame holds the current color of the one logical pixel (x, y) with
\* xy_to_index(x, y) = p, for all W*H positions; a sparse update is exactly
\* {(mapping[l], color(l)) : l dirty}, with as many physical indices as there
\* are dirty logical indices.
C19_SentByPhysicalIndex ==
    [][(show_call'.path \in {"full", "json", "sparse"}) =>
        IF show_call'.path = "sparse"
        THEN LET ups == {show_call'.updates[k] : k \in DOMAIN show_call'.updates}
             IN  /\ ups = {<<display.mapping[l], fb_pixels[l]>> : l \in fb_dirty}
                 /\ Cardinality({u[1] : u \in ups}) = Cardinality(fb_dirty)
                 /\ Len(show_call'.updates) = Cardinality(fb_dirty)
                 /\ show_call'.status = "ok" =>
                     \A l \in fb_dirty :
                         \E k \in DOMAIN show_call'.sent :
                             LET pkt == show_call'.sent[k]
                                 at  == 3 * display.mapping[l] - PacketOffset(pkt)
                             IN  /\ at >= 0 /\ at + 3 <= PacketLength(pkt)
                                 /\ SubSeq(PacketPayload(pkt), at + 1, at + 3)
                                      = rgb_bytes_from_colors(<<fb_pixels[l]>>)
        ELSE /\ Len(show_call'.out) = width * height
             /\ \A p \in 0..(width * height - 1) :
                 /\ Cardinality({l \in LogicalIndices :
                        xy_to_index(l % width, l \div width, width, height,
                                    TRUE, "top_left").index = p}) = 1
                 /\ show_call'.out[p + 1] = fb_pixels[LogicalAt(p)]
                 /\ (show_call'.path = "full" /\ show_call'.status = "ok") =>
                     SubSeq(StreamOf(show_call'.sent), 3 * p + 1, 3 * p + 3)
                         = rgb_bytes_from_colors(<<fb_pixels[LogicalAt(p)]>>)
                 /\ (show_call'.path = "json" /\ show_call'.status = "ok") =>
                     show_call'.posted[p + 1]
                         = <<Saturated(fb_pixels[LogicalAt(p)][1]),
                             Saturated(fb_pixels[LogicalAt(p)][2]),
                             Saturated(fb_pixels[LogicalAt(p)][3])>>]_vars

\* a sparse show() of a 2x2 buffer whose one dirty pixel lies in the reversed row
C19_Witness ==
    /\ show_call.path = "sparse"
    /\ show_call.status = "ok"
    /\ display.width = 2 /\ display.height = 2
    /\ show_call.dirty[1][1] = 2
    /\ show_call.updates[1][1] = 3
    /\ show_call.dirty[1][2] # Black


----------------------------------------------------------------------------
(* The sender's sequence counter and its failures.                         *)

\* the last step was a call of send_rgb_bytes or send_sparse_update
SendStep == send_call' # send_call \/ ddp_client' # ddp_client

\* the successor of a sequence value: 15 wraps to 1
NextSequence(n) == IF n = 15 THEN 1 ELSE n + 1

\* C21: the sender's counter is always in 1..15 and is 1 until a frame was
\* sent; all packets of a frame carry the counter's value at the time of the
\* call, and a frame sent successfully (full or sparse) advances the counter
\* by one, 15 wrapping to 1.
C21_SequenceStamped ==
    /\ [](/\ ddp_client.sequence \in 1..15
          /\ (send_call.op = "none" => ddp_client.sequence = 1))
    /\ [][/\ \A k \in 1..Len(send_call'.built) :
                PacketSequence(send_call'.built[k]) = ddp_client.sequence
          /\ (send_call'.status = "ok" =>
                ddp_client'.sequence = NextSequence(ddp_client.sequence))]_vars

\* the fifteenth frame, sent in two packets, left the counter at 1
C21_Witness ==
    /\ send_call.status = "ok"
    /\ Len(send_call.sent) = 2
    /\ \A k \in 1..2 : PacketSequence(send_call.sent[k]) = 15
    /\ ddp_client.sequence = 1

\* C22: the counter advances by one for every frame whose packets were
\* constructed, also when the send of one of them fails.
C22_AdvancesOncePerBuiltFrame ==
    [][send_call'.built # <<>> /\ SendStep =>
            ddp_client'.sequence = NextSequence(ddp_client.sequence)]_vars

\* C23: when the send of the k-th packet of a frame fails, every other packet
\* of the frame is handed to the transport once, the final PUSH packet included.
C23_FailedSendDoesNotBlock ==
    [][send_call'.status = "OSError" /\ SendStep =>
            LET built == send_call'.built
                k == send_call'.fail_at
            IN  send_call'.sent = SubSeq(built, 1, k - 1) \o SubSeq(built, k + 1, Len(built))]_vars

\* the arguments an encoder is documented to reject
InvalidEncodeArgs(max_pixels_per_packet, destination_id) ==
    max_pixels_per_packet <= 0 \/ destination_id \notin 0..255

\* C24: send_rgb_bytes on a client whose max_pixels_per_packet is <= 0 or
\* whose destination_id is outside 0..255 ends with ValueError for every byte
\* string, the empty one included: no packet is built, none is sent and the
\* counter keeps its value.
C24_FullFrameRejectsInvalidArgs ==
    [][(/\ send_call'.op = "send_rgb_bytes"
        /\ SendStep
        /\ InvalidEncodeArgs(ddp_client.max_pixels_per_packet,
                                ddp_client.destination_id)) =>
            /\ send_call'.status = "ValueError"
            /\ send_call'.built = <<>>
            /\ send_call'.sent = <<>>
            /\ ddp_client' = ddp_client]_vars

\* a full frame was refused by a client with destination id 256,
\* after a sparse frame had moved its counter on
C24_Witness ==
    /\ send_call.op = "send_rgb_bytes"
    /\ send_call.status = "ValueError"
    /\ ddp_client.destination_id = 256
    /\ ddp_client.max_pixels_per_packet > 0
    /\ ddp_client.sequence = 2


\* C25: build_ddp_sparse_packets called with max_pixels_per_packet <= 0 or
\* with a destination id outside 0..255 ends with ValueError and returns no
\* packet.
C25_SparseRejectsInvalidArgs ==
    (/\ enc_call.op = "build_ddp_sparse_packets"
     /\ enc_result # Pending
     /\ InvalidEncodeArgs(enc_call.max_pixels_per_packet, enc_call.destination_id)) =>
        /\ enc_result.status = "ValueError"
        /\ enc_result.packets = <<>>


----------------------------------------------------------------------------
(* Coordinates outside the grid, under SpecBounds.                         *)

\* (x, y) is outside [0, w) x [0, h)
Outside(x, y, w, h) == x < 0 \/ x >= w \/ y < 0 \/ y >= h

\* C26: set_pixel and get_pixel with (x, y) outside [0,W)x[0,H), negative or
\* too large on either axis, end with ValueError, and so does xy_to_index in
\* its implemented start corner, serpentine or not; a failed set_pixel leaves
\* the stored colors and the dirty set as they were.
C26_OutOfBoundsRaises ==
    [][/\ (/\ fb_call'.op \in {"set_pixel", "get_pixel"}
           /\ Outside(fb_args'[1], fb_args'[2], width, height)) =>
               /\ fb_call'.status = "ValueError"
               /\ fb_pixels' = fb_pixels
               /\ fb_dirty' = fb_dirty
       /\ (/\ map_call'.status # "none"
           /\ map_call'.start_corner = "top_left"
           /\ Outside(map_call'.x, map_call'.y, map_call'.width, map_call'.height)) =>
               map_call'.status = "ValueError"]_vars

\* set_pixel one row below a grid that holds a dirty, colored pixel
C26_Witness ==
    /\ fb_call.op = "set_pixel"
    /\ fb_call.status = "ValueError"
    /\ fb_args = <<0, height>>
    /\ fb_dirty # {}
    /\ \E i \in LogicalIndices : fb_pixels[i] # Black


----------------------------------------------------------------------------
(* show() with a framebuffer of another size, under SpecPaired.            *)

\* C27: show(framebuffer) with a framebuffer whose width or height differs
\* from the display's ends with ValueError in json and in ddp mode: nothing
\* is built, sent or posted, no client is created or advanced, and the
\* framebuffer's colors and dirty set are as before the call.
C27_SizeMismatchRaises ==
    [][(/\ show_call'.status # "none"
        /\ (width # display.width \/ height # display.height)) =>
            /\ show_call'.status = "ValueError"
            /\ show_call'.built = <<>>
            /\ show_call'.sent = <<>>
            /\ show_call'.posted = <<>>
            /\ ctl_ddp' = ctl_ddp
            /\ fb_pixels' = fb_pixels
            /\ fb_dirty' = fb_dirty]_vars

\* a 1x2 framebuffer with a dirty pixel refused by a 2x1 ddp display
C27_Witness ==
    /\ show_call.status = "ValueError"
    /\ display.output = "ddp"
    /\ width = 1 /\ height = 2
    /\ display.width = 2 /\ display.height = 1
    /\ fb_dirty # {}


----------------------------------------------------------------------------
(* The wiring modes of xy_to_index, under SpecMapper.                      *)

\* column-serpentine: even columns top to bottom, odd columns bottom to top
ColumnSerpentine(x, y, h) == IF x % 2 = 0 THEN x * h + y ELSE x * h + (h - 1 - y)

\* the values a caller can give start_corner to select a wiring
WiringSelectors == StartCorners \cup {"column_serpentine"}

\* C28: some choice of xy_to_index's mode arguments selects column-serpentine
\* wiring: with it, (x, y) maps to x*H+y on even columns and to x*H+(H-1-y)
\* on odd columns, for every cell of the display's grid.
C28_ColumnSerpentineSelectable ==
    Constructed =>
        \E serpentine \in BOOLEAN, start_corner \in WiringSelectors :
            \A x \in 0..(display.width - 1), y \in 0..(display.height - 1) :
                xy_to_index(x, y, display.width, display.height, serpentine, start_corner)
                    = MapIndex("ok", ColumnSerpentine(x, y, display.height))


----------------------------------------------------------------------------
(* The snake's ticks and turns, under SpecSnake.                           *)

\* C29: update(dt) on a started, running, unpaused game makes no step while
\* the accumulated time is below seconds_per_tick, and otherwise one step for
\* every whole tick accumulated, fewer only if the game ended; the ticks
\* taken leave the accumulator; every step that moves the snake moves its
\* head one cell in the direction pending at the update.
C29_OneStepPerWholeTick ==
    [][(/\ game_call'.op = "update"
        /\ game.started /\ game.running /\ ~game.paused) =>
            LET total == game._tick_accumulator + game_call'.dt
                whole == total \div game.seconds_per_tick
                steps == game_call'.steps
                moves == game_call'.moves
                d == game._pending_direction
            IN  /\ total < game.seconds_per_tick =>
                    game' = [game EXCEPT !._tick_accumulator = total]
                /\ steps <= whole
                /\ game'.running => steps = whole /\ moves = steps
                /\ steps < whole => ~game'.running
                /\ moves \in {steps - 1, steps} \cap (0..steps)
                /\ game'._tick_accumulator = total - steps * game.seconds_per_tick
                /\ game'._snake[1] = <<game._snake[1][1] + moves * d[1],
                                       game._snake[1][2] + moves * d[2]>>
                /\ Len(game'._snake) >= Len(game._snake)
                /\ Len(game'._snake) <= Len(game._snake) + moves]_vars

\* an update whose dt is less than two ticks found enough in the accumulator
\* to make two steps, and moved the head two cells to the left
C29_Witness ==
    /\ game_call.op = "update"
    /\ game_call.dt < 2 * game.seconds_per_tick
    /\ game_call.steps = 2
    /\ game_call.moves = 2
    /\ game.running
    /\ game._direction = LEFT
    /\ game._snake[1][1] = game.width \div 2 - 2

\* C30: on a started game a request_direction for the direction opposite to
\* the current one changes nothing, and whatever requests are made between
\* two ticks, several between the same two included, the head never moves in
\* the direction opposite to its last move.
C30_NoReversal ==
    [][/\ (/\ game_call'.op = "request_direction"
           /\ game.started
           /\ _is_opposite(game._direction, game_call'.direction)) =>
               game' = game
       /\ (/\ game_call'.op = "update"
           /\ game_call'.moves > 0
           /\ game_call.last_move # <<0, 0>>) =>
               /\ ~_is_opposite(game_call.last_move, game'._direction)
               /\ game'._snake[1] # <<game._snake[1][1] - game_call.last_move[1],
                                      game._snake[1][2] - game_call.last_move[2]>>]_vars

\* the head moved right, then up and left were requested before the next
\* tick, and that tick moved the head up
C30_Witness ==
    /\ game_call.op = "update"
    /\ game_call.moves = 1
    /\ game_call.last_move = UP
    /\ game._direction = UP
    /\ Len(game._snake) = 2
    /\ game._snake[2][1] > 0
    /\ game._snake[1][2] = game._snake[2][2] - 1


----------------------------------------------------------------------------
(* What one step() does, under SpecStep.                                   *)

\* the cell the head of g moves to at the next step
NewHead(g) == <<g._snake[1][1] + g._pending_direction[1],
                g._snake[1][2] + g._pending_direction[2]>>

\* the snake without its last segment
Front(snake) == SubSeq(snake, 1, Len(snake) - 1)

\* C31: a step whose new head cell is the apple puts the new head before the
\* whole snake (one segment more, the tail stays) and moves the apple to a
\* free cell, or stops the game when there is none; every other step that
\* moves the snake puts the new head before the snake without its tail and
\* leaves the apple where it is.
C31_EatingGrowsByOne ==
    [][game_call'.op = "step" =>
        /\ NewHead(game) = game._apple =>
            /\ game'._snake = <<NewHead(game)>> \o game._snake
            /\ Len(game'._snake) = Len(game._snake) + 1
            /\ IF Cells(game) \ Segments(game'._snake) = {}
               THEN ~game'.running
               ELSE /\ game'._apple \in Cells(game) \ Segments(game'._snake)
                    /\ game'._apple # game._apple
                    /\ game'.running = game.running
        /\ (NewHead(game) # game._apple /\ game'._snake # game._snake) =>
            /\ game'._snake = <<NewHead(game)>> \o Front(game._snake)
            /\ Len(game'._snake) = Len(game._snake)
            /\ game'._apple = game._apple]_vars

\* a snake of three ate the apple in front of it: its three old segments
\* follow the new head, and the apple is elsewhere
C31_Witness ==
    /\ game_call.op = "step"
    /\ Len(game._snake) = 4
    /\ game._direction = RIGHT
    /\ game._snake[2] = <<game._snake[1][1] - 1, game._snake[1][2]>>
    /\ game._apple \notin Segments(game._snake)
    /\ game.running

\* C33: a step whose new head is outside the grid, or on a cell the snake
\* still occupies after the move (any segment but the tail, or the tail too
\* when the apple is eaten), sets running to false and leaves snake and apple
\* as they were; a step onto the cell the tail leaves in that step moves the
\* snake and does not stop the game.
C33_CollisionStopsGame ==
    [][game_call'.op = "step" =>
        LET new_head == NewHead(game)
            kept == IF new_head = game._apple THEN game._snake ELSE Front(game._snake)
        IN  /\ (new_head \notin Cells(game) \/ new_head \in Segments(kept)) =>
                /\ ~game'.running
                /\ game'._snake = game._snake
                /\ game'._apple = game._apple
            /\ (/\ Len(game._snake) > 1
                /\ new_head = game._snake[Len(game._snake)]
                /\ new_head # game._apple) =>
                    /\ game'._snake = <<new_head>> \o Front(game._snake)
                    /\ game'._apple = game._apple
                    /\ game'.running = game.running]_vars

\* on a 3x2 grid the head of a snake of four, curled in a square, moved onto
\* the cell its tail had just left (the new tail lies in the corner, whose
\* only other neighbour is the new head), and the game goes on
C33_Witness ==
    /\ game_call.op = "step"
    /\ game_call.moves = 1
    /\ game.width = 3 /\ game.height = 2
    /\ Len(game._snake) = 4
    /\ game._snake[4] = <<0, 0>>
    /\ Adjacent(game._snake[1], game._snake[4])
    /\ game.running


----------------------------------------------------------------------------
(* The game from its default start, under SpecSnake and SpecSnakeSteps.    *)

\* C32: while the game is running the apple lies on a cell of the grid that
\* no segment of the snake occupies: at construction, after every eat, and
\* a board without a free cell is never a running game.
C32_AppleOnFreeCell ==
    game.running => game._apple \in Cells(game) \ Segments(game._snake)

\* on a 2x2 grid the snake ate twice and the apple lies on the last free cell
C32_Witness ==
    /\ game.running
    /\ game.width = 2 /\ game.height = 2
    /\ Len(game._snake) = 3
    /\ game_call.moves > 0

\* C34: update(dt) on a game that has not been started, is paused or is not
\* running changes nothing, the accumulator included; on a game waiting for
\* its first input a valid request_direction starts it with that direction
\* (pending and current) and an invalid one changes nothing; a game that is
\* not running stays so.
C34_IdleUpdatesDiscarded ==
    [][/\ (/\ game_call'.op = "update"
           /\ (~game.started \/ game.paused \/ ~game.running)) =>
               /\ game' = game
               /\ game_call'.steps = 0
       /\ (/\ game_call'.op = "request_direction"
           /\ game.start_on_first_input /\ ~game.started) =>
               IF game_call'.direction \in Directions
               THEN game' = [game EXCEPT !.started = TRUE,
                                         !._direction = game_call'.direction,
                                         !._pending_direction = game_call'.direction]
               ELSE game' = game
       /\ ~game.running => ~game'.running]_vars

\* an update of three units on a paused game that had one unit accumulated:
\* the unit is still alone in the accumulator
C34_Witness ==
    /\ game_call.op = "update"
    /\ game_call.dt = 3
    /\ game.paused /\ game.started /\ game.running
    /\ game._tick_accumulator = 1

\* C39: every segment of the snake lies inside the grid, no two segments
\* share a cell, and each segment is orthogonally adjacent to the next,
\* whatever sequence of request_direction, toggle_pause, quit, update and
\* step was called.
C39_SnakeWellFormed ==
    /\ Segments(game._snake) \subseteq Cells(game)
    /\ WellFormed(game._snake)

\* a snake of three with a bend, moved by a step() its owner called on a
\* game that is not running any more
C39_Witness ==
    /\ game_call.op = "step"
    /\ game_call.moves = 1
    /\ ~game.running
    /\ Len(game._snake) = 3
    /\ game._snake[1][1] # game._snake[3][1]
    /\ game._snake[1][2] # game._snake[3][2]


----------------------------------------------------------------------------
(* Termination and totality of the encoders.                               *)

\* C36: every call of build_ddp_packets and of build_ddp_sparse_packets
\* returns, with packets or with an error, whatever max_pixels_per_packet
\* it is given, zero and negative values included.
C36_EncodersTerminate ==
    CallMade => enc_result.status # "diverges"

\* C38: build_ddp_packets called with max_pixels_per_packet > 0 and a
\* destination id in 0..255 returns packets for every byte string, and the
\* length field of every packet is the size of its payload.
C38_FullFrameTotal ==
    (IsFullFrame /\ CallMade /\ ValidArgs) =>
        /\ enc_result.status = "ok"
        /\ \A k \in DOMAIN enc_result.packets :
            LET p == enc_result.packets[k]
            IN  /\ Len(p) - DDP_HEADER_LEN <= USHRT_MAX
                /\ PacketLength(p) = Len(p) - DDP_HEADER_LEN


----------------------------------------------------------------------------
(* The controller's cached sender, under SpecController.                   *)

\* the step is a frame sent through the controller
CtlSendStep == send_call'.op \in {"set_pixels_ddp", "set_pixels_ddp_sparse"}

\* the cached client serves the port and destination id of the call
CacheServes ==
    /\ ctl_ddp.open
    /\ ctl_ddp.port = send_call'.ddp_port
    /\ ctl_ddp.destination_id = send_call'.destination_id

\* at most one socket is open, and it is the cached client's
OneOpenSender ==
    /\ send_call.open_senders \in {0, 1}
    /\ send_call.open_senders = IF ctl_ddp.open THEN 1 ELSE 0

\* the cached client is kept, with its counter, while port and destination id
\* are those of the call; it is replaced by a client for the call's port and
\* destination id, stamping 1, exactly when they are not
SenderReusedOrReplaced ==
    [][CtlSendStep =>
        /\ ctl_ddp'.open
        /\ ctl_ddp'.port = send_call'.ddp_port
        /\ ctl_ddp'.destination_id = send_call'.destination_id
        /\ \A k \in DOMAIN send_call'.built :
            PacketSequence(send_call'.built[k]) = IF CacheServes THEN ctl_ddp.sequence ELSE 1
        /\ ctl_ddp'.sequence \in
            IF CacheServes THEN {ctl_ddp.sequence, NextSequence(ctl_ddp.sequence)}
            ELSE {1, 2}]_vars

\* two frames in a row to the same port and destination id carry consecutive
\* sequence numbers of the 1..15 cycle
ConsecutiveFrames ==
    [][(/\ CtlSendStep
        /\ CacheServes
        /\ send_call.built # <<>>
        /\ send_call'.built # <<>>) =>
            PacketSequence(send_call'.built[1])
                = NextSequence(PacketSequence(send_call.built[1]))]_vars

\* C37: the controller has at most one open sender; it is reused while port
\* and destination id are unchanged, so that consecutive frames carry
\* consecutive sequence numbers of the 1..15 cycle, and it is replaced, the
\* old one closed first and the new one starting at 1, exactly when the port
\* or the destination id of a send differs from the cached one.
C37_OneCachedSender ==
    /\ []OneOpenSender
    /\ SenderReusedOrReplaced
    /\ ConsecutiveFrames


----------------------------------------------------------------------------
(* A renderer, a display in ddp mode and the device: every packet show()   *)
(* hands to the socket is applied by the device, in the order sent.        *)

\* the device's buffer when the strip is dark: every byte of every pixel is 0
DarkReceiver(w, h) == [o \in 0..(3 * w * h - 1) |-> <<0>>]

\* the panels shown: the short strips, and the grids of at least two rows and
\* two columns, whose serpentine mapping is not the identity
SyncSizes == PairedSizes \cup {wh \in GridSizes : wh[1] >= 2 /\ wh[2] >= 2}

InitSync ==
    /\ EncIdle
    /\ SenderIdle /\ CoordsIdle /\ GameIdle
    /\ \E wh \in SyncSizes :
        /\ NewFramebuffer(wh[1], wh[2])
        /\ display = NewDisplay(wh[1], wh[2], "ddp")
        /\ post_init_next = wh[1] * wh[2]
        /\ receiver = DarkReceiver(wh[1], wh[2])
    /\ ctl_ddp = NoClient
    /\ show_call = NoShow

\* a show() while the cached client has sent at most MaxFrames frames; the
\* packets that reached the socket, those of a show() that raised included,
\* are written to the device's buffer
SyncShow ==
    /\ ctl_ddp.sequence <= MaxFrames
    /\ \E fail_at \in 0..(display.width * display.height) :
        /\ Show(fail_at)
        /\ receiver' = ApplyPackets(receiver, show_call'.sent)
        /\ UNCHANGED <<enc_vars, fb_history, snd_vars, map_call, fb_args, game_vars>>

NextSync == RenderSetPixel \/ RenderClear \/ SyncShow

SpecSync == InitSync /\ [][NextSync]_vars

----------------------------------------------------------------------------
(* The device follows the framebuffer, under SpecSync.                     *)

\* the physical remap of the framebuffer's clamped pixels, byte by byte:
\* pixel p of the strip shows the logical pixel that xy_to_index sends to p
PhysicalRemap ==
    [o \in 0..(3 * width * height - 1) |->
        <<Saturated(fb_pixels[LogicalAt(o \div 3)][(o % 3) + 1])>>]

\* C35: in ddp mode, with a receiver that applies every sent packet in order
\* and starts as the remapped all-black framebuffer, after every show() that
\* returns normally the receiver's buffer is the physical remap of the
\* framebuffer's clamped pixels, whichever of the no-op, sparse and
\* full-frame paths the show took.
C35_ReceiverInSync ==
    (show_call.status = "ok") => receiver = PhysicalRemap

\* a sparse show() of a 2x2 buffer returned normally: the one dirty pixel, in
\* the reversed row, reached the device at its physical index, clamped, next
\* to a pixel an earlier show() had lit
C35_Witness ==
    /\ show_call.path = "sparse"
    /\ show_call.status = "ok"
    /\ display.width = 2 /\ display.height = 2
    /\ show_call.updates[1][1] = 3
    /\ fb_pixels[2] = <<-5, 300, 7>>
    /\ receiver[9] = <<0>> /\ receiver[10] = <<255>> /\ receiver[11] = <<7>>
    /\ receiver[1] = <<255>>

====
